---- MODULE Spec2Model ----
(***************************************************************************)
(* Router / Auth-state / Profile-cache synchronisation of the salmoncow    *)
(* single page application.                                                *)
(*                                                                         *)
(* JavaScript strings that the router slices and compares (paths, the URL  *)
(* hash) are sequences of one-character strings, so that normalizePath,    *)
(* getPathFromHash and the template literal `#${currentRoute}` are         *)
(* computed the way the code computes them.  JavaScript null in a place    *)
(* that otherwise holds such a string is the one-element tuple `null`      *)
(* whose element is not a character.                                       *)
(*                                                                         *)
(* Every `await` is a point where other events may run: an asynchronous    *)
(* operation is a record in `ops` whose pc names the await it is           *)
(* suspended at.                                                           *)
(***************************************************************************)
EXTENDS Integers, Sequences, FiniteSets, TLC

VARIABLES
    \* browser
    hash,            \* what window.location.hash returns
    hashEvents,      \* hashchange events queued and not yet dispatched
    hintStore,       \* localStorage['salmoncow_auth_hint']
    \* RouterModule
    listening,       \* init() has registered the hashchange listener
    routes,          \* keys of this.routes (the handler of a key is named by the key)
    currentRoute,    \* this.currentRoute
    guards,          \* this.beforeNavigateCallbacks
    lastRes,         \* observation of the latest handleRouteChange() call
    \* identity provider and AuthModule
    providerUser,    \* the provider's session
    authQueue,       \* provider auth-state callbacks not yet delivered
    currentUser,     \* AuthModule.currentUser
    authInitialized, \* AuthModule.authInitialized
    initializationPromise, \* AuthModule.initializationPromise
    authStateCallbacks,    \* AuthModule.authStateCallbacks, the App's own aside
    heard,           \* the values each of those callbacks was called with
    \* App
    started,         \* App.init() has run
    view,            \* which of homeView / profileView is displayed
    navState,        \* presentation of the navigation bar
    loginOp,         \* login / logout click handler suspended at its await
    \* UserPortalModule and the user-portal component
    portalUser,      \* UserPortalModule.currentUser
    portal,          \* the component's profile / loading / error fields
    \* UserProfileService and its repository
    now,             \* Date.now()
    store,           \* localStorage: uid -> the record under the uid's key
    cache,           \* this.cache: uid -> entry
    stateCallbacks,  \* this.stateCallbacks
    delivered,       \* the latest value each subscriber was called with
    ops              \* asynchronous service calls suspended at an await

routerVars == <<listening, routes, currentRoute, guards, lastRes>>
browserVars == <<hash, hashEvents, hintStore>>
authListenerVars == <<initializationPromise, authStateCallbacks, heard>>
authVars == <<providerUser, authQueue, currentUser, authInitialized,
             authListenerVars>>
appVars == <<started, view, navState, loginOp>>
portalVars == <<portalUser, portal>>
serviceVars == <<now, store, cache, stateCallbacks, delivered, ops>>
vars == <<browserVars, routerVars, authVars, appVars, portalVars, serviceVars>>

----
(* Bounds *)
MaxHashEvents == 2
MaxAuthQueue == 2
MaxLoads == 1          \* profile loads of the portal in flight
MaxCalls == 2          \* calls through the service API in flight
MaxPeriods == 1        \* whole cache lifetimes the clock advances by
MaxMillis == 1         \* single milliseconds the clock advances by
MaxGuards == 2         \* guards registered with a router under test
MaxUpdates == 1        \* update calls through the service API in flight
MaxSubscribers == 2    \* callbacks registered with onStateChange
MaxHeard == 3          \* calls an auth-state callback records
MaxWaiters == 1        \* waitForAuthInitialization() calls in flight
MaxLen == 3            \* characters of a path handed to the router
MaxRoutes == 2         \* routes registered with a router fed such paths
MaxOverlap == 2        \* service calls in flight where calls overlap

----
(* JavaScript values *)
null == <<"<null>">>
NoUser == "null"
Users == {"u1", "u2"}
Accounts == {"u1"}     \* who signs in on this browser

ROOT == <<"/">>
PROFILE == <<"/", "p", "r", "o", "f", "i", "l", "e">>
EMPTY == <<>>

\* String(v) as done by a template literal
ToStr(v) == IF v = null THEN <<"n", "u", "l", "l">> ELSE v

startsWith(s, c) == Len(s) > 0 /\ s[1] = c
endsWith(s, c) == Len(s) > 0 /\ s[Len(s)] = c

----
(* RouterModule: pure helpers *)

normalizePath(path) ==
    LET normalized == IF startsWith(path, "/") THEN path ELSE <<"/">> \o path
    IN  IF normalized # ROOT /\ endsWith(normalized, "/")
        THEN SubSeq(normalized, 1, Len(normalized) - 1)
        ELSE normalized

getPathFromHash(h) ==
    IF h = EMPTY \/ h = <<"#">>
    THEN ROOT
    ELSE normalizePath(Tail(h))

\* window.location.hash = value : the getter's value afterwards
hashAfterSet(value) ==
    LET frag == IF startsWith(value, "#") THEN Tail(value) ELSE value
    IN  IF frag = EMPTY THEN EMPTY ELSE <<"#">> \o frag

\* history.replaceState(null, '', url) with url = pathname or '#...'
hashAfterReplace(url) ==
    IF startsWith(url, "#") /\ Len(url) > 1 THEN url ELSE EMPTY

\* navigate(path): the value assigned to window.location.hash
navigateTarget(path) ==
    LET normalizedPath == normalizePath(path)
    IN  IF normalizedPath = ROOT THEN EMPTY ELSE normalizedPath

PATHNAME == <<"/">>      \* window.location.pathname: a URL without fragment

----
(* AuthHintModule *)

\* what can stand under STORAGE_KEY, by the JSON text it is
\*   absent         getItem returns null
\*   empty          ''
\*   notJSON        e.g. '{isAuth'
\*   null           'null'
\*   number         '5'
\*   noField        '{}'
\*   nonBoolean     '{"isAuthenticated":"yes"}'
\*   false          '{"isAuthenticated":false}'
\*   true ...       '{"isAuthenticated":true,"displayName":...,"photoURL":...}'
\*   inaccessible   every access to localStorage throws
HintContents ==
    {"absent", "empty", "notJSON", "null", "number", "noField", "nonBoolean",
     "false", "true", "trueName", "truePhoto", "trueNamePhoto", "inaccessible"}

NoHint == [isNull |-> TRUE, isAuthenticated |-> FALSE]

Undefined == "undefined"
hintObject(a, d, p) ==
    [isNull |-> FALSE, isAuthenticated |-> a, displayName |-> d, photoURL |-> p]

\* JSON.stringify(hint) for the hints saveHint builds
JSONstringify(hint) ==
    CASE hint.displayName = "null" /\ hint.photoURL = "null" -> "true"
      [] hint.displayName # "null" /\ hint.photoURL = "null" -> "trueName"
      [] hint.displayName = "null" /\ hint.photoURL # "null" -> "truePhoto"
      [] hint.displayName # "null" /\ hint.photoURL # "null" -> "trueNamePhoto"

\* JSON.parse(stored): throws, or the value; for a value, whether it is
\* null and whether typeof value.isAuthenticated === 'boolean'
JSONparse(stored) ==
    LET value(isNull, hasBoolean, hint) ==
            [throws |-> FALSE, isNull |-> isNull, hasBoolean |-> hasBoolean, value |-> hint]
    IN  CASE stored = "notJSON"       -> [throws |-> TRUE, isNull |-> FALSE,
                                          hasBoolean |-> FALSE, value |-> NoHint]
          [] stored = "null"          -> value(TRUE, FALSE, NoHint)
          [] stored = "number"        -> value(FALSE, FALSE, NoHint)
          [] stored = "noField"       -> value(FALSE, FALSE, NoHint)
          [] stored = "nonBoolean"    -> value(FALSE, FALSE, NoHint)
          [] stored = "false"         -> value(FALSE, TRUE, hintObject(FALSE, Undefined, Undefined))
          [] stored = "true"          -> value(FALSE, TRUE, hintObject(TRUE, "null", "null"))
          [] stored = "trueName"      -> value(FALSE, TRUE, hintObject(TRUE, "name", "null"))
          [] stored = "truePhoto"     -> value(FALSE, TRUE, hintObject(TRUE, "null", "photo"))
          [] stored = "trueNamePhoto" -> value(FALSE, TRUE, hintObject(TRUE, "name", "photo"))

\* how a call of the module ends: with an exception, or with a value
Thrown == [thrown |-> TRUE, value |-> NoHint]
returns(v) == [thrown |-> FALSE, value |-> v]

\* the try block of getHint()
getHintTry(stored) ==
    IF stored = "inaccessible"
    THEN Thrown                                  \* getItem throws
    ELSE IF stored \in {"absent", "empty"}
    THEN returns(NoHint)                         \* !stored
    ELSE LET hint == JSONparse(stored)
         IN  IF hint.throws \/ hint.isNull
             THEN Thrown                         \* SyntaxError, TypeError
             ELSE IF ~hint.hasBoolean
             THEN returns(NoHint)
             ELSE returns(hint.value)

\* a getHint() without its try / catch
catchNothing(outcome) == outcome

\* catch { return null; }
catchReturnsNull(outcome) == IF outcome.thrown THEN returns(NoHint) ELSE outcome

\* getHint() as its caller sees it end
getHintCall(stored) == catchReturnsNull(getHintTry(stored))

\* getHint(): stored is the text under STORAGE_KEY
getHint(stored) == getHintCall(stored).value

\* v || null
orNull(v) == IF v \in {"", Undefined, "null"} THEN "null" ELSE v

\* a hint that leaves the photo out
hintWithoutPhoto(user) == hintObject(TRUE, orNull(user.displayName), "null")

\* the object saveHint(user) builds
hintOfUser(user) ==
    hintObject(TRUE, orNull(user.displayName), orNull(user.photoURL))

\* clearHint(): the storage afterwards and how the call ends; removeItem
\* throws when the storage is inaccessible, the catch block is empty
clearHint(stored) ==
    IF stored = "inaccessible"
    THEN [stored |-> stored, outcome |-> returns(NoHint)]
    ELSE [stored |-> "absent", outcome |-> returns(NoHint)]

\* saveHint(user); quota: setItem throws QuotaExceededError
saveHint(stored, user, quota) ==
    IF user = [isNull |-> TRUE]
    THEN clearHint(stored)
    ELSE IF stored = "inaccessible" \/ quota
    THEN [stored |-> stored, outcome |-> returns(NoHint)]
    ELSE [stored |-> JSONstringify(hintOfUser(user)), outcome |-> returns(NoHint)]

\* hint?.isAuthenticated as a condition
hintClaimsAuth(h) == ~h.isNull /\ h.isAuthenticated

----
(* AuthModule *)

isAuthenticated == currentUser # NoUser

----
(* RouterModule.handleRouteChange *)

\* App.setupRoutes: the guard of the profile route.  ret is the value
\* returned, nav whether it called this.router.navigate('/').
\* a guard that looks only at whether a hint exists, not at what it says
profileGuardDeniesUnlessHintExists(authed, hint) == ~authed /\ hint.isNull

profileGuardDenies(authed, hint) == ~authed /\ ~hintClaimsAuth(hint)

profileGuard(newPath) ==
    IF newPath = PROFILE /\ profileGuardDenies(isAuthenticated, getHint(hintStore))
    THEN [ret |-> "false", nav |-> TRUE]
    ELSE [ret |-> "true", nav |-> FALSE]

\* The guards registered with a router under test; none of them navigates.
GuardKinds == {"deny", "allow", "void"}

callGuard(g, newPath, oldPath) ==
    CASE g = "profileGuard" -> profileGuard(newPath)
      [] g = "deny"         -> [ret |-> "false", nav |-> FALSE]
      [] g = "allow"        -> [ret |-> "true", nav |-> FALSE]
      [] g = "void"         -> [ret |-> "undefined", nav |-> FALSE]
      [] g = "zero"         -> [ret |-> "0", nav |-> FALSE]
      [] g = "denyProfile"  -> [ret |-> IF newPath = PROFILE THEN "false" ELSE "true",
                                nav |-> FALSE]
      [] g = "denyFromHome" -> [ret |-> IF oldPath = ROOT THEN "false" ELSE "undefined",
                                nav |-> FALSE]

\* a loop that stops on every falsy value
cancelsOnFalsy(ret) == ret \in {"false", "0", "undefined"}

\* a loop that stops on true instead of false
cancelsOnTrue(ret) == ret = "true"

\* result === false
cancelsNavigation(ret) == ret = "false"

\* a router without the same-route check
neverSameRoute(path, cur) == FALSE

\* same-route check at the top of handleRouteChange
isSameRoute(path, cur) == path = cur

\* the for-of loop over beforeNavigateCallbacks: h is the hash, q the
\* hashchange events queued by guards so far, n the guards consulted
RECURSIVE beforeNavigateLoop(_, _, _, _, _, _)
beforeNavigateLoop(gs, path, old, h, q, n) ==
    IF gs = <<>>
    THEN [cancelled |-> FALSE, hash |-> h, queued |-> q, consulted |-> n]
    ELSE LET r  == callGuard(Head(gs), path, old)
             h1 == IF r.nav THEN hashAfterSet(navigateTarget(ROOT)) ELSE h
             q1 == IF h1 # h THEN q + 1 ELSE q
         IN  IF cancelsNavigation(r.ret)
             THEN [cancelled |-> TRUE, hash |-> h1, queued |-> q1, consulted |-> n + 1]
             ELSE beforeNavigateLoop(Tail(gs), path, old, h1, q1, n + 1)

\* the URL handed to history.replaceState when a navigation is cancelled
restoreUrl(cur) ==
    IF cur = ROOT THEN PATHNAME ELSE <<"#">> \o ToStr(cur)

\* a router without the fallback to the handler of '/'
selectHandlerNoFallback(rts, path) == IF path \in rts THEN path ELSE null

\* the handler executed for a committed path: the key of this.routes whose
\* handler runs, or null
selectHandler(rts, path) ==
    IF path \in rts THEN path
    ELSE IF ROOT \in rts THEN ROOT
    ELSE null

\* One call of handleRouteChange() with hash h, this.currentRoute cur,
\* this.beforeNavigateCallbacks gs and this.routes rts: what it leaves.
handleRouteChange(h, cur, gs, rts) ==
    LET path == getPathFromHash(h)
    IN  IF isSameRoute(path, cur)
        THEN [outcome |-> "same", path |-> path, old |-> cur,
              hash |-> h, queued |-> 0, route |-> cur,
              handler |-> null, consulted |-> 0]
        ELSE LET g == beforeNavigateLoop(gs, path, cur, h, 0, 0)
             IN  IF g.cancelled
                 THEN [outcome |-> "cancelled", path |-> path, old |-> cur,
                       hash |-> hashAfterReplace(restoreUrl(cur)),
                       queued |-> g.queued, route |-> cur,
                       handler |-> null, consulted |-> g.consulted]
                 ELSE [outcome |-> "committed", path |-> path, old |-> cur,
                       hash |-> g.hash, queued |-> g.queued, route |-> path,
                       handler |-> selectHandler(rts, path),
                       consulted |-> g.consulted]

\* what lastRes keeps of a call
observed(r) ==
    [outcome |-> r.outcome, path |-> r.path, old |-> r.old,
     handler |-> r.handler, consulted |-> r.consulted, restored |-> r.hash]

NoRes == [outcome |-> "none", path |-> null, old |-> null,
          handler |-> null, consulted |-> 0, restored |-> EMPTY]

\* App.showHome / App.showProfile
viewAfter(handler, v) ==
    IF handler = ROOT THEN "home"
    ELSE IF handler = PROFILE THEN "profile"
    ELSE v

\* NavigationModule.initWithHint
initWithHint(hint) ==
    IF hint # NoHint /\ hint.isAuthenticated THEN "pending" ELSE "unauthenticated"

\* NavigationModule.updateAuthState
navAfterAuthState(user) == IF user # NoUser THEN "authenticated" ELSE "unauthenticated"

\* this.router.navigate(path) from hash h: the hash and the events queued
navigate(path, h) ==
    LET h1 == hashAfterSet(navigateTarget(path))
    IN  [hash |-> h1, queued |-> IF h1 # h THEN 1 ELSE 0]

\* a listener that redirects whenever no user is delivered while a view is
\* shown other than the profile
redirectsHomeOffProfile(user, route) == user = NoUser /\ route # PROFILE /\ route # null

\* the redirect at the end of the App's auth-state listener
redirectsHome(user, route) == user = NoUser /\ route = PROFILE

----
(* Result type *)

success(data) == [success |-> TRUE, data |-> data]
failure(error, code) == [success |-> FALSE, error |-> error, code |-> code]

----
(* types/user-profile.js *)

NoProfile == [isNull |-> TRUE]          \* null where a profile may stand
NoPhoto == "null"

Date(ms) == [type |-> "Date", ms |-> ms]
\* the text toISOString() gives for the time ms: YYYY-MM-DDTHH:mm:ss up to
\* the second, then the three digits of the milliseconds
ISOString(ms) == [type |-> "string", seconds |-> ms \div 1000, millis |-> ms % 1000]

DEFAULT_PREFERENCES == [theme |-> "system", emailNotifications |-> TRUE]

\* the provider's user object for a uid
authUserOf(u) == [uid |-> u, email |-> "mail", displayName |-> "name", photoURL |-> NoPhoto]

\* a profile whose two timestamps come from different clock readings
createUserProfileStampedTwice(authUser, t) ==
    [uid |-> authUser.uid,
     email |-> authUser.email,
     displayName |-> authUser.displayName,
     photoURL |-> authUser.photoURL,
     createdAt |-> Date(t),
     updatedAt |-> Date(t + 1),
     preferences |-> DEFAULT_PREFERENCES]

createUserProfileFromAuth(authUser, t) ==
    [uid |-> authUser.uid,
     email |-> authUser.email,
     displayName |-> authUser.displayName,
     photoURL |-> authUser.photoURL,
     createdAt |-> Date(t),
     updatedAt |-> Date(t),
     preferences |-> DEFAULT_PREFERENCES]

\* a serialization that writes the time to the second only
serializeDateToSeconds(d) ==
    IF d.type = "Date" THEN ISOString((d.ms \div 1000) * 1000) ELSE d

\* x instanceof Date ? x.toISOString() : x
serializeDate(d) == IF d.type = "Date" THEN ISOString(d.ms) ELSE d

serializeUserProfile(profile) ==
    [profile EXCEPT !.createdAt = serializeDate(profile.createdAt),
                    !.updatedAt = serializeDate(profile.updatedAt)]

\* a value that is not a string where a string is expected
NotAString == "<number>"
isString(v) == v # NotAString /\ v # NoPhoto

\* { ...a, ...b }
spread(a, b) ==
    [k \in DOMAIN a \cup DOMAIN b |-> IF k \in DOMAIN b THEN b[k] ELSE a[k]]

\* {} and null where an object of updates or preferences may stand
EmptyObject == [k \in {} |-> TRUE]
NullObject == [isNull |-> TRUE]

\* validateUserProfile(profile).valid for a merged profile
validateUserProfile(profile) ==
    /\ profile # NullObject
    /\ profile.uid # NoUser
    /\ isString(profile.email)
    /\ isString(profile.displayName)
    /\ profile.preferences # NullObject

\* new Date(x) for an ISO string or a Date
newDate(x) ==
    IF x.type = "Date" THEN Date(x.ms) ELSE Date(x.seconds * 1000 + x.millis)

deserializeUserProfile(data) ==
    [data EXCEPT !.createdAt = newDate(data.createdAt),
                 !.updatedAt = newDate(data.updatedAt)]

----
(* LocalStorageUserProfileRepository *)

Absent == [isNull |-> TRUE]             \* localStorage.getItem(key) === null

\* text under a profile's key that JSON.parse rejects
Corrupt == [corrupt |-> TRUE]

\* what localStorage does to the accesses of one call: nothing unusual,
\* setItem throws QuotaExceededError, or every access throws
StorageFaults == {"none", "quota", "throws"}

\* a try block left by an exception of the given name
throws(name) == [thrown |-> TRUE, value |-> name]

\* the promise of an async method whose body threw
Rejected == [success |-> FALSE, rejected |-> TRUE]

\* what the caller of an async method receives
settle(outcome) == IF outcome.thrown THEN Rejected ELSE outcome.value

\* a catch block that does not look at error.name
catchAsOneCode(outcome, code, quotaCode) ==
    IF outcome.thrown
    THEN returns(failure("Failed", code))
    ELSE outcome

\* catch (error) { if (error.name === 'QuotaExceededError') return
\* failure(..., quotaCode); return failure(..., code); }
catchAs(outcome, code, quotaCode) ==
    IF outcome.thrown
    THEN returns(failure("Failed", IF outcome.value = "QuotaExceededError"
                                   THEN quotaCode ELSE code))
    ELSE outcome

\* the try block of findById(uid)
findByIdTry(st, uid, fault) ==
    IF uid = NoUser
    THEN returns(failure("User ID is required", "INVALID_UID"))
    ELSE IF fault = "throws"
    THEN throws("SecurityError")                  \* getItem
    ELSE IF st[uid] = Absent
    THEN returns(success(NoProfile))
    ELSE IF st[uid] = Corrupt
    THEN throws("SyntaxError")                    \* JSON.parse
    ELSE returns(success(deserializeUserProfile(st[uid])))

\* findById(uid) under a storage fault
findByIdUnder(st, uid, fault) ==
    settle(catchAs(findByIdTry(st, uid, fault), "READ_ERROR", "READ_ERROR"))

findById(st, uid) == findByIdUnder(st, uid, "none")

\* localStorage.setItem(key, text) under a storage fault
setItem(st, uid, text, fault) ==
    CASE fault = "quota"  -> [store |-> st, outcome |-> throws("QuotaExceededError")]
      [] fault = "throws" -> [store |-> st, outcome |-> throws("SecurityError")]
      [] fault = "none"   -> [store |-> [st EXCEPT ![uid] = text],
                              outcome |-> returns(TRUE)]

\* a save that writes the record before it validates the profile
saveThenValidate(st, profile, fault) ==
    IF profile = NullObject
    THEN [store |-> st, result |-> failure("invalid", "VALIDATION_ERROR")]
    ELSE LET w == setItem(st, profile.uid, serializeUserProfile(profile), fault)
             o == IF w.outcome.thrown THEN w.outcome ELSE returns(success(profile))
         IN  IF ~validateUserProfile(profile)
             THEN [store |-> w.store, result |-> failure("invalid", "VALIDATION_ERROR")]
             ELSE [store |-> w.store,
                   result |-> settle(catchAs(o, "SAVE_ERROR", "QUOTA_EXCEEDED"))]

\* save(profile) under a storage fault: the store afterwards and the Result
saveUnder(st, profile, fault) ==
    IF ~validateUserProfile(profile)
    THEN [store |-> st, result |-> failure("invalid", "VALIDATION_ERROR")]
    ELSE LET w == setItem(st, profile.uid, serializeUserProfile(profile), fault)
             o == IF w.outcome.thrown THEN w.outcome ELSE returns(success(profile))
         IN  [store |-> w.store,
              result |-> settle(catchAs(o, "SAVE_ERROR", "QUOTA_EXCEEDED"))]

\* save(profile): the store afterwards and the Result
save(st, profile) == saveUnder(st, profile, "none")

\* delete(uid): the store afterwards and the Result
delete(st, uid, fault) ==
    IF uid = NoUser
    THEN [store |-> st, result |-> failure("User ID is required", "INVALID_UID")]
    ELSE LET o == IF fault = "throws" THEN throws("SecurityError")   \* removeItem
                  ELSE returns(success(TRUE))
         IN  [store |-> IF o.thrown THEN st ELSE [st EXCEPT ![uid] = Absent],
              result |-> settle(catchAs(o, "DELETE_ERROR", "DELETE_ERROR"))]

\* exists(uid)
exists(st, uid, fault) ==
    IF uid = NoUser
    THEN failure("User ID is required", "INVALID_UID")
    ELSE LET o == IF fault = "throws" THEN throws("SecurityError")   \* getItem
                  ELSE returns(success(st[uid] # Absent))
         IN  settle(catchAs(o, "EXISTS_ERROR", "EXISTS_ERROR"))

\* updates.preferences || {}
preferencesOf(updates) ==
    IF "preferences" \in DOMAIN updates /\ updates.preferences # NullObject
    THEN updates.preferences
    ELSE EmptyObject

\* a merge without the nested spread: { ...existing, ...updates, updatedAt }
mergeUpdatesShallow(existing, updates, t) ==
    [spread(existing, updates) EXCEPT !.updatedAt = Date(t)]

\* the object literal of update(): existing overlaid with updates, the
\* preferences merged key by key, updatedAt stamped
mergeUpdates(existing, updates, t) ==
    [spread(existing, updates) EXCEPT
        !.preferences = spread(existing.preferences, preferencesOf(updates)),
        !.updatedAt = Date(t)]

\* an update that keeps whatever uid the merge produced
keepMergedUid(updated, uid) == updated

\* updated.uid = uid
pinUid(updated, uid) == [updated EXCEPT !.uid = uid]

\* update(uid, updates) after its await of findById, resumed with
\* existingResult: the store afterwards and the Result
update(st, uid, updates, existingResult, t, fault) ==
    IF ~existingResult.success
    THEN [store |-> st, result |-> existingResult]
    ELSE IF existingResult.data = NoProfile
    THEN [store |-> st, result |-> failure("Profile not found", "NOT_FOUND")]
    ELSE IF updates = NullObject         \* updates.preferences throws
    THEN [store |-> st,
          result |-> settle(catchAs(throws("TypeError"), "UPDATE_ERROR", "QUOTA_EXCEEDED"))]
    ELSE LET updated == pinUid(mergeUpdates(existingResult.data, updates, t), uid)
         IN  IF ~validateUserProfile(updated)
             THEN [store |-> st, result |-> failure("invalid", "VALIDATION_ERROR")]
             ELSE LET w == setItem(st, uid, serializeUserProfile(updated), fault)
                      o == IF w.outcome.thrown THEN w.outcome
                           ELSE returns(success(updated))
                  IN  [store |-> w.store,
                       result |-> settle(catchAs(o, "UPDATE_ERROR", "QUOTA_EXCEEDED"))]

----
(* UserProfileService *)

CACHE_TTL_MS == 5 * 60 * 1000

NoEntry == [isNull |-> TRUE]            \* this.cache.get(uid) === undefined

\* an entry that already expires when its age reaches the lifetime
isExpiredAtLifetime(age) == age >= CACHE_TTL_MS

\* age > CACHE_TTL_MS
isExpired(age) == age > CACHE_TTL_MS

\* getCached(uid): the cache afterwards and the value returned
getCached(c, uid, t) ==
    LET entry == c[uid]
    IN  IF entry = NoEntry
        THEN [cache |-> c, profile |-> NoProfile]
        ELSE IF isExpired(t - entry.timestamp)
             THEN [cache |-> [c EXCEPT ![uid] = NoEntry], profile |-> NoProfile]
             ELSE [cache |-> c, profile |-> entry.profile]

setCache(c, uid, profile, t) ==
    [c EXCEPT ![uid] = [profile |-> profile, timestamp |-> t]]

\* how a call found the cache when it began (kept in the call's record)
cacheLookup(c, uid, t) ==
    IF uid = NoUser THEN "none"
    ELSE IF c[uid] = NoEntry THEN "miss"
    ELSE IF getCached(c, uid, t).profile = NoProfile THEN "expired"
    ELSE "hit"

\* An asynchronous call runs synchronously up to its first await.  Each of
\* the following gives the cache, the store and the call's record after one
\* such stretch; pc names the await the call is then suspended at:
\*   "find"  await this.repository.findById(...)   res = its Result
\*   "save"  await this.repository.save(...)       res = its Result
\*   "ret"   the service method has returned res; its caller's await
\*           has not resumed yet

\* getOrCreateProfile(authUser), lines 57-68, the storage under fault
getOrCreateProfileBeginUnder(c, st, t, u, fault) ==
    IF u = NoUser
    THEN [cache |-> c, store |-> st, pc |-> "ret",
          res |-> failure("Valid auth user is required", "INVALID_USER")]
    ELSE LET g == getCached(c, u, t)
         IN  IF g.profile # NoProfile
             THEN [cache |-> g.cache, store |-> st, pc |-> "ret", res |-> success(g.profile)]
             ELSE [cache |-> g.cache, store |-> st, pc |-> "find",
                   res |-> findByIdUnder(st, u, fault)]

getOrCreateProfileBegin(c, st, t, u) == getOrCreateProfileBeginUnder(c, st, t, u, "none")

\* a getOrCreateProfile that answers an unreadable record with a new profile
getOrCreateProfileOverwriting(c, st, t, u, findResult, fault) ==
    IF findResult.success /\ findResult.data # NoProfile
    THEN [cache |-> setCache(c, u, findResult.data, t), store |-> st,
          pc |-> "ret", res |-> success(findResult.data)]
    ELSE LET s == saveUnder(st, createUserProfileFromAuth(authUserOf(u), t), fault)
         IN  [cache |-> c, store |-> s.store, pc |-> "save", res |-> s.result]

\* getOrCreateProfile, lines 69-88, resumed with findResult
getOrCreateProfileFound(c, st, t, u, findResult, fault) ==
    IF ~findResult.success
    THEN [cache |-> c, store |-> st, pc |-> "ret", res |-> findResult]
    ELSE IF findResult.data = NoProfile
         THEN LET s == saveUnder(st, createUserProfileFromAuth(authUserOf(u), t), fault)
              IN  [cache |-> c, store |-> s.store, pc |-> "save", res |-> s.result]
         ELSE [cache |-> setCache(c, u, findResult.data, t), store |-> st,
               pc |-> "ret", res |-> success(findResult.data)]

\* getOrCreateProfile, lines 79-88, resumed with saveResult
getOrCreateProfileSaved(c, st, t, u, saveResult) ==
    IF ~saveResult.success
    THEN [cache |-> c, store |-> st, pc |-> "ret", res |-> saveResult]
    ELSE [cache |-> setCache(c, u, saveResult.data, t), store |-> st,
          pc |-> "ret", res |-> success(saveResult.data)]

\* getProfile(uid), lines 97-107
getProfileBegin(c, st, t, uid) ==
    IF uid = NoUser
    THEN [cache |-> c, store |-> st, pc |-> "ret",
          res |-> failure("User ID is required", "INVALID_UID")]
    ELSE LET g == getCached(c, uid, t)
         IN  IF g.profile # NoProfile
             THEN [cache |-> g.cache, store |-> st, pc |-> "ret", res |-> success(g.profile)]
             ELSE [cache |-> g.cache, store |-> st, pc |-> "find", res |-> findById(st, uid)]

\* a getProfile that caches whatever a successful findById returned
getProfileCachingAbsence(c, st, t, uid, result) ==
    [cache |-> IF result.success THEN setCache(c, uid, result.data, t) ELSE c,
     store |-> st, pc |-> "ret", res |-> result]

\* getProfile, lines 108-112, resumed with result
getProfileFound(c, st, t, uid, result) ==
    [cache |-> IF result.success /\ result.data # NoProfile
               THEN setCache(c, uid, result.data, t) ELSE c,
     store |-> st, pc |-> "ret", res |-> result]

\* subscribers whose callback throws when called
Throwing == {"s1"}

\* a forEach body without try / catch
escapesUncaught(s) == s \in Throwing

\* try { callback(profile) } catch (error) { console.error(...) }: whether
\* an exception thrown by the callback of s leaves the statement
escapesTry(s) == FALSE

\* this.stateCallbacks.forEach(...): what each subscriber was last called
\* with; an exception that escapes ends the loop
RECURSIVE forEachCallback(_, _, _)
forEachCallback(cbs, dl, profile) ==
    IF cbs = <<>>
    THEN dl
    ELSE LET called == [dl EXCEPT ![Head(cbs)] = profile]
         IN  IF escapesTry(Head(cbs))
             THEN called
             ELSE forEachCallback(Tail(cbs), called, profile)

\* notifyStateChange(profile): what each subscriber was last called with
notifyStateChange(cbs, dl, profile) == forEachCallback(cbs, dl, profile)

\* notifyStateChange(profile) ends with an exception
notifyThrows(cbs) == \E i \in 1..Len(cbs) : escapesTry(cbs[i])

UpdateKinds == {"updatePreferences", "updateProfile"}

\* repository.update(uid, updates) called directly: up to its await
updateBegin(c, st, uid, fault) ==
    IF uid = NoUser
    THEN [cache |-> c, store |-> st, pc |-> "ret",
          res |-> failure("User ID is required", "INVALID_UID")]
    ELSE [cache |-> c, store |-> st, pc |-> "merge",
          res |-> findByIdUnder(st, uid, fault)]

\* updatePreferences(uid, preferences), lines 122-130: up to the await
\* inside repository.update
updatePreferencesBegin(c, st, uid, preferences) ==
    IF uid = NoUser
    THEN [cache |-> c, store |-> st, pc |-> "ret",
          res |-> failure("User ID is required", "INVALID_UID")]
    ELSE IF preferences = NullObject
    THEN [cache |-> c, store |-> st, pc |-> "ret",
          res |-> failure("Preferences object is required", "INVALID_PREFERENCES")]
    ELSE [cache |-> c, store |-> st, pc |-> "merge", res |-> findById(st, uid)]

\* updateProfile(uid, updates), lines 149-153
updateProfileBegin(c, st, uid) ==
    IF uid = NoUser
    THEN [cache |-> c, store |-> st, pc |-> "ret",
          res |-> failure("User ID is required", "INVALID_UID")]
    ELSE [cache |-> c, store |-> st, pc |-> "merge", res |-> findById(st, uid)]

\* repository.update resumes after its await of findById and returns
updateMerged(c, st, t, uid, updates, existingResult) ==
    LET r == update(st, uid, updates, existingResult, t, "none")
    IN  [cache |-> c, store |-> r.store, pc |-> "updated", res |-> r.result]

\* an update that returns the result without this.setCache(uid, result.data)
updateDoneWithoutCache(c, st, t, uid, result, thrown) ==
    [cache |-> c, store |-> st, pc |-> "ret",
     res |-> IF result.success /\ thrown THEN Rejected ELSE result]

\* updatePreferences / updateProfile resumed with the repository's result;
\* thrown: notifyStateChange let an exception out
updateDone(c, st, t, uid, result, thrown) ==
    [cache |-> IF result.success THEN setCache(c, uid, result.data, t) ELSE c,
     store |-> st, pc |-> "ret",
     res |-> IF result.success /\ thrown THEN Rejected ELSE result]

\* the storage fault a call runs under: none unless the call names one
faultOf(op) == IF "fault" \in DOMAIN op THEN op.fault ELSE "none"

\* the next stretch of a suspended call
resume(c, st, t, op) ==
    CASE op.kind = "getOrCreateProfile" /\ op.pc = "find" ->
             getOrCreateProfileFound(c, st, t, op.uid, op.res, faultOf(op))
      [] op.kind = "getOrCreateProfile" /\ op.pc = "save" ->
             getOrCreateProfileSaved(c, st, t, op.uid, op.res)
      [] op.kind = "getProfile" /\ op.pc = "find" ->
             getProfileFound(c, st, t, op.uid, op.res)
      [] op.kind = "update" /\ op.pc = "merge" ->
             LET r == update(st, op.uid, op.updates, op.res, t, op.fault)
             IN  [cache |-> c, store |-> r.store, pc |-> "ret", res |-> r.result]
      [] op.kind \in UpdateKinds /\ op.pc = "merge" ->
             updateMerged(c, st, t, op.uid, op.updates, op.res)
      [] op.kind \in UpdateKinds /\ op.pc = "updated" ->
             updateDone(c, st, t, op.uid, op.res, notifyThrows(stateCallbacks))

\* a clearProfile that empties the cache: this.cache.clear()
clearProfileOfEveryone(c, uid) ==
    [v \in DOMAIN c |-> NoEntry]

\* clearProfile(uid): the cache afterwards
clearProfile(c, uid) ==
    IF uid # NoUser THEN [c EXCEPT ![uid] = NoEntry] ELSE c

----
(* UserPortalModule and the user-portal component *)

EmptyPortal == [profile |-> NoProfile, loading |-> FALSE, error |-> FALSE]

setLoading(p) == [p EXCEPT !.loading = TRUE, !.error = FALSE]
setProfile(p, profile) == [profile |-> profile, loading |-> FALSE, error |-> FALSE]
setError(p) == [p EXCEPT !.error = TRUE, !.loading = FALSE]

\* loadProfile after its await
loadProfileDone(p, result) ==
    IF result.success THEN setProfile(p, result.data) ELSE setError(p)

\* this.currentUser as UserPortalModule.clearProfile() reads it, called from
\* handleAuthStateChange(user) when the module held `before`
currentUserAtClear(before, user) == user

\* handleAuthStateChange(null): the service cache afterwards
portalClearProfile(c, before, user) ==
    LET cu == currentUserAtClear(before, user)
    IN  IF cu # NoUser THEN clearProfile(c, cu) ELSE c

RemoveAt(seq, i) == SubSeq(seq, 1, i - 1) \o SubSeq(seq, i + 1, Len(seq))

\* the clock advances by single milliseconds and by whole cache lifetimes
clockInBounds(t) == (t \div CACHE_TTL_MS) <= MaxPeriods /\ (t % CACHE_TTL_MS) <= MaxMillis

----
(* AuthModule *)

\* the callbacks a page can pass to onAuthStateChanged besides the App's
AuthSubscribers == {"a1", "a2"}

\* a promise before and after resolve(value)
Pending == [state |-> "pending"]
fulfilled(v) == [state |-> "fulfilled", value |-> v]

\* the resolve function of new Promise: a settled promise ignores it
resolve(promise, value) ==
    IF promise.state = "pending" THEN fulfilled(value) ELSE promise

\* a provider observer that replaces the promise on every callback
resolveOnEveryCallback(promise, initialized, user) == fulfilled(user)

\* if (!this.authInitialized) { this.authInitialized = true; resolve(user); }
resolveOnFirst(promise, initialized, user) ==
    IF ~initialized THEN resolve(promise, user) ELSE promise

\* indexOf(callback): 0 stands for -1
indexOf(callbacks, s) ==
    IF \E i \in 1..Len(callbacks) : callbacks[i] = s
    THEN CHOOSE i \in 1..Len(callbacks) :
             /\ callbacks[i] = s
             /\ \A j \in 1..(i - 1) : callbacks[j] # s
    ELSE 0

\* a forEach that stops after the first callback
callFirst(callbacks, h, user) ==
    IF callbacks = <<>> THEN h
    ELSE [h EXCEPT ![Head(callbacks)] = Append(@, user)]

\* this.authStateCallbacks.forEach(callback => callback(user)),
\* the callbacks returning normally
RECURSIVE callEach(_, _, _)
callEach(callbacks, h, user) ==
    IF callbacks = <<>> THEN h
    ELSE callEach(Tail(callbacks),
                  [h EXCEPT ![Head(callbacks)] = Append(@, user)], user)

\* the closure onAuthStateChanged returns
unsubscribeAuth(callbacks, s) ==
    IF indexOf(callbacks, s) > 0
    THEN RemoveAt(callbacks, indexOf(callbacks, s))
    ELSE callbacks

----
(* The application *)

\* hashes a user can produce by links, typing or the back button
Subscribers == {"s1", "s2"}
NotCalled == [called |-> FALSE]

UserHashes ==
    { EMPTY,
      <<"#">> \o PROFILE,
      <<"#", "/", "x">> }

\* what a previous page load can have left under the hint's key
InitialHints == {"absent", "notJSON", "false", "true"}

\* the state after construction, over a localStorage holding st
InitOver(st, hints) ==
    /\ hash \in UserHashes
    /\ hashEvents = 0
    /\ hintStore \in hints
    /\ listening = FALSE
    /\ routes = {}
    /\ currentRoute = null
    /\ guards = <<>>
    /\ lastRes = NoRes
    /\ providerUser \in Accounts \cup {NoUser}
    /\ authQueue = <<>>
    /\ currentUser = NoUser
    /\ authInitialized = FALSE
    /\ initializationPromise = Pending
    /\ authStateCallbacks = <<>>
    /\ heard = [s \in AuthSubscribers |-> <<>>]
    /\ started = FALSE
    /\ view = "none"
    /\ navState = "initial"
    /\ loginOp = "idle"
    /\ portalUser = NoUser
    /\ portal = EmptyPortal
    /\ now = 0
    /\ store = st
    /\ cache = [u \in Users |-> NoEntry]
    /\ stateCallbacks = <<>>
    /\ delivered = [s \in Subscribers |-> NotCalled]
    /\ ops = <<>>

Init == InitOver([u \in Users |-> Absent], InitialHints)

\* App.init(): runs to completion inside the DOMContentLoaded handler
AppInit ==
    /\ ~started
    /\ started' = TRUE
    \* new AuthModule: the provider will deliver the session it restored
    /\ authQueue' = <<providerUser>>
    \* setupRoutes
    /\ routes' = {normalizePath(ROOT), normalizePath(PROFILE)}
    /\ guards' = <<"profileGuard">>
    \* initWithHint, overwritten by the immediate callback of
    \* onAuthStateChanged with AuthModule.currentUser
    /\ navState' = navAfterAuthState(currentUser)
    \* router.init()
    /\ listening' = TRUE
    /\ LET r == handleRouteChange(hash, currentRoute, guards', routes')
       IN  /\ hash' = r.hash
           /\ hashEvents' = hashEvents + r.queued
           /\ currentRoute' = r.route
           /\ lastRes' = observed(r)
           /\ view' = viewAfter(r.handler, view)
    \* the immediate callback reaches handleAuthStateChange(null)
    /\ portalUser' = currentUser
    /\ portal' = EmptyPortal
    /\ cache' = portalClearProfile(cache, portalUser, currentUser)
    /\ UNCHANGED <<hintStore, providerUser, currentUser, authInitialized,
                   authListenerVars, loginOp,
                   now, store, stateCallbacks, delivered, ops>>

\* the hashchange listener registered by RouterModule.init()
HashChange ==
    /\ listening
    /\ hashEvents > 0
    /\ LET r == handleRouteChange(hash, currentRoute, guards, routes)
       IN  /\ hash' = r.hash
           /\ hashEvents' = hashEvents - 1 + r.queued
           /\ currentRoute' = r.route
           /\ lastRes' = observed(r)
           /\ view' = viewAfter(r.handler, view)
    /\ UNCHANGED <<hintStore, listening, routes, guards, authVars,
                   started, navState, loginOp, portalVars, serviceVars>>

\* a hashchange event is dispatched before init() has added the listener
HashChangeUnheard ==
    /\ ~listening
    /\ hashEvents > 0
    /\ hashEvents' = hashEvents - 1
    /\ UNCHANGED <<hash, hintStore, routerVars, authVars, appVars, portalVars, serviceVars>>

\* the user follows a link, edits the URL or goes back
UserSetsHash(h) ==
    /\ h # hash
    /\ hashEvents < MaxHashEvents
    /\ hash' = h
    /\ hashEvents' = hashEvents + 1
    /\ UNCHANGED <<hintStore, routerVars, authVars, appVars, portalVars, serviceVars>>

\* the provider's session changes outside the page's own buttons
ProviderChange(u) ==
    /\ started
    /\ u # providerUser
    /\ Len(authQueue) < MaxAuthQueue
    /\ providerUser' = u
    /\ authQueue' = Append(authQueue, u)
    /\ UNCHANGED <<browserVars, routerVars, currentUser, authInitialized,
                   authListenerVars, appVars,
                   portalVars, serviceVars>>

\* AuthModule's provider observer, then the App's listener
DeliverAuthState ==
    /\ started
    /\ authQueue # <<>>
    /\ Head(authQueue) # NoUser => Len(ops) < MaxLoads
    \* this.userPortal.handleAuthStateChange(user)
    /\ LET user == Head(authQueue)
       IN  /\ portalUser' = user
           /\ IF user # NoUser
              THEN \* loadProfile(user) up to its await
                   LET b == getOrCreateProfileBegin(cache, store, now, user)
                   IN  /\ portal' = setLoading(portal)
                       /\ cache' = b.cache
                       /\ ops' = Append(ops, [kind |-> "getOrCreateProfile",
                                              caller |-> "portal", uid |-> user,
                                              via |-> cacheLookup(cache, user, now),
                                              pc |-> b.pc, res |-> b.res])
                       /\ UNCHANGED delivered
              ELSE \* clearProfile()
                   /\ cache' = portalClearProfile(cache, portalUser, user)
                   /\ delivered' = IF currentUserAtClear(portalUser, user) # NoUser
                                   THEN notifyStateChange(stateCallbacks, delivered, NoProfile)
                                   ELSE delivered
                   /\ portal' = EmptyPortal
                   /\ UNCHANGED ops
    /\ LET user == Head(authQueue)
           nav  == IF redirectsHome(user, currentRoute)
                   THEN navigate(ROOT, hash)
                   ELSE [hash |-> hash, queued |-> 0]
       IN  /\ authQueue' = Tail(authQueue)
           /\ currentUser' = user
           /\ authInitialized' = TRUE
           /\ initializationPromise' =
                  resolveOnFirst(initializationPromise, authInitialized, user)
           /\ heard' = callEach(authStateCallbacks, heard, user)
           /\ navState' = navAfterAuthState(user)
           /\ hash' = nav.hash
           /\ hashEvents' = hashEvents + nav.queued
    /\ UNCHANGED <<hintStore, routerVars, providerUser, authStateCallbacks,
                   started, view, loginOp, now, store, stateCallbacks>>

\* login button: await this.auth.signInWithGoogle()
\* (a failed sign-in only shows a toast)
LoginClick(u) ==
    /\ started
    /\ navState = "unauthenticated"
    /\ loginOp = "idle"
    /\ Len(authQueue) < MaxAuthQueue
    /\ providerUser' = u
    /\ authQueue' = IF u # providerUser THEN Append(authQueue, u) ELSE authQueue
    /\ loginOp' = "loginOk"
    /\ UNCHANGED <<browserVars, routerVars, currentUser, authInitialized,
                   authListenerVars,
                   started, view, navState, portalVars, serviceVars>>

\* logout button: await this.auth.signOut()
\* (a failed sign-out only shows a toast)
LogoutClick ==
    /\ started
    /\ navState = "authenticated"
    /\ loginOp = "idle"
    /\ Len(authQueue) < MaxAuthQueue
    /\ providerUser' = NoUser
    /\ authQueue' = IF providerUser # NoUser
                    THEN Append(authQueue, NoUser) ELSE authQueue
    /\ loginOp' = "logoutOk"
    /\ UNCHANGED <<browserVars, routerVars, currentUser, authInitialized,
                   authListenerVars,
                   started, view, navState, portalVars, serviceVars>>

\* the click handler after its await
ClickReturn ==
    /\ loginOp # "idle"
    /\ hashEvents < MaxHashEvents
    /\ LET nav == IF loginOp = "loginOk"
                  THEN navigate(PROFILE, hash)
                  ELSE navigate(ROOT, hash)
       IN  /\ hash' = nav.hash
           /\ hashEvents' = hashEvents + nav.queued
    /\ loginOp' = "idle"
    /\ UNCHANGED <<hintStore, routerVars, authVars, started, view, navState,
                   portalVars, serviceVars>>

\* a suspended service call resumes after its await and runs to the next
Resume(i) ==
    /\ i \in 1..Len(ops)
    /\ ops[i].pc # "ret"
    /\ LET r == resume(cache, store, now, ops[i])
       IN  /\ cache' = r.cache
           /\ store' = r.store
           /\ ops' = [ops EXCEPT ![i].pc = r.pc, ![i].res = r.res]
    /\ delivered' = IF ops[i].kind \in UpdateKinds /\ ops[i].pc = "updated"
                        /\ ops[i].res.success
                     THEN notifyStateChange(stateCallbacks, delivered, ops[i].res.data)
                     ELSE delivered
    /\ UNCHANGED <<browserVars, routerVars, authVars, appVars, portalVars,
                   now, stateCallbacks>>

\* the caller of a service call resumes with the call's Result
Return(i) ==
    /\ i \in 1..Len(ops)
    /\ ops[i].pc = "ret"
    /\ ops' = RemoveAt(ops, i)
    /\ portal' = IF ops[i].caller = "portal"
                 THEN loadProfileDone(portal, ops[i].res)
                 ELSE portal
    /\ UNCHANGED <<browserVars, routerVars, authVars, appVars, portalUser,
                   now, store, cache, stateCallbacks, delivered>>

\* time passes
Tick(d) ==
    /\ clockInBounds(now + d)
    /\ now' = now + d
    /\ UNCHANGED <<browserVars, routerVars, authVars, appVars, portalVars,
                   store, cache, stateCallbacks, delivered, ops>>

TickSteps == {1, CACHE_TTL_MS}

(* The application as App.init() wires it.  The clock does not advance:    *)
(* nothing the router, the auth module or the hint read depends on it.     *)
Next ==
    \/ AppInit
    \/ HashChange
    \/ HashChangeUnheard
    \/ \E h \in UserHashes : UserSetsHash(h)
    \/ \E u \in Accounts \cup {NoUser} : ProviderChange(u)
    \/ DeliverAuthState
    \/ \E u \in Accounts : LoginClick(u)
    \/ LogoutClick
    \/ ClickReturn
    \/ \E i \in 1..MaxLoads : Resume(i)
    \/ \E i \in 1..MaxLoads : Return(i)

Spec == Init /\ [][Next]_vars

----
(* Signing in from the login button, the user and the provider doing      *)
(* nothing else: the handlers that are due do run (the browser dispatches  *)
(* every queued hashchange, the provider delivers every callback, every    *)
(* awaited promise settles)                                                *)

NextLogin ==
    \/ AppInit
    \/ HashChange
    \/ DeliverAuthState
    \/ \E u \in Accounts : LoginClick(u)
    \/ ClickReturn
    \/ \E i \in 1..MaxLoads : Resume(i)
    \/ \E i \in 1..MaxLoads : Return(i)

SpecLogin ==
    /\ Init
    /\ [][NextLogin]_vars
    /\ WF_vars(AppInit)
    /\ WF_vars(HashChange)
    /\ WF_vars(DeliverAuthState)
    /\ WF_vars(ClickReturn)
    /\ \A i \in 1..MaxLoads : WF_vars(Resume(i)) /\ WF_vars(Return(i))

----
(* A RouterModule on its own, driven through its public methods *)

RegisterInputs == {ROOT, PROFILE, <<"x", "/">>}
NavigateInputs == {ROOT, PROFILE, <<"p", "r", "o", "f", "i", "l", "e", "/">>, <<"/", "x">>, <<"/", "y">>}

InitRouter ==
    /\ Init
    /\ hash \in {EMPTY, <<"#">> \o PROFILE}
    /\ hintStore = "absent"
    /\ providerUser = NoUser

\* register(path, handler)
Register(p) ==
    /\ routes' = routes \cup {normalizePath(p)}
    /\ UNCHANGED <<browserVars, listening, currentRoute, guards, lastRes,
                   authVars, appVars, portalVars, serviceVars>>

\* onBeforeNavigate(callback)
OnBeforeNavigate(g) ==
    /\ Len(guards) < MaxGuards
    /\ guards' = Append(guards, g)
    /\ UNCHANGED <<browserVars, listening, routes, currentRoute, lastRes,
                   authVars, appVars, portalVars, serviceVars>>

\* a navigate that resolves the route itself after setting the hash
NavigateAndResolve(p) ==
    /\ hashEvents < MaxHashEvents
    /\ LET nav == navigate(p, hash)
           r == handleRouteChange(nav.hash, currentRoute, guards, routes)
       IN  /\ hash' = r.hash
           /\ hashEvents' = hashEvents + nav.queued
           /\ currentRoute' = r.route
           /\ lastRes' = observed(r)
           /\ view' = viewAfter(r.handler, view)
    /\ UNCHANGED <<hintStore, listening, routes, guards, authVars, started,
                   navState, loginOp, portalVars, serviceVars>>

\* navigate(path)
Navigate(p) ==
    /\ hashEvents < MaxHashEvents
    /\ LET nav == navigate(p, hash)
       IN  /\ hash' = nav.hash
           /\ hashEvents' = hashEvents + nav.queued
    /\ UNCHANGED <<hintStore, routerVars, authVars, appVars, portalVars, serviceVars>>

\* init()
RouterInit ==
    /\ ~listening
    /\ listening' = TRUE
    /\ LET r == handleRouteChange(hash, currentRoute, guards, routes)
       IN  /\ hash' = r.hash
           /\ hashEvents' = hashEvents + r.queued
           /\ currentRoute' = r.route
           /\ lastRes' = observed(r)
           /\ view' = viewAfter(r.handler, view)
    /\ UNCHANGED <<hintStore, routes, guards, authVars, started, navState, loginOp,
                   portalVars, serviceVars>>

NextRouter ==
    \/ \E p \in RegisterInputs : Register(p)
    \/ \E g \in GuardKinds : OnBeforeNavigate(g)
    \/ \E p \in NavigateInputs : Navigate(p)
    \/ RouterInit
    \/ HashChange
    \/ HashChangeUnheard

SpecRouter == InitRouter /\ [][NextRouter]_vars

----
(* A RouterModule fed every short path: register(path, handler) and the    *)
(* fragment of the URL take any string over '/' and 'a'                    *)

PathChars == {"/", "a"}
Paths == UNION { [1..n -> PathChars] : n \in 0..MaxLen }

InitPaths ==
    /\ Init
    /\ hash = EMPTY
    /\ hintStore = "absent"
    /\ providerUser = NoUser

\* register(path, handler)
RegisterPath(p) ==
    /\ Cardinality(routes) < MaxRoutes
    /\ Register(p)

NextPaths ==
    \/ \E p \in Paths : RegisterPath(p)
    \/ \E p \in Paths \ {EMPTY} : UserSetsHash(<<"#">> \o p)
    \/ RouterInit
    \/ HashChange
    \/ HashChangeUnheard

SpecPaths == InitPaths /\ [][NextPaths]_vars

----
(* The guards of a RouterModule: callbacks that look at their arguments or *)
(* return something other than a boolean are registered and unsubscribed   *)
(* between navigations                                                     *)

\* the callbacks passed to onBeforeNavigate: "zero" returns 0, "denyProfile"
\* returns false for the new path '/profile' and true otherwise,
\* "denyFromHome" false for the old path '/' and undefined otherwise
GuardCallbacks == {"zero", "denyProfile", "denyFromHome"}

\* the closure onBeforeNavigate returns
unsubscribeGuard(gs, g) ==
    IF indexOf(gs, g) > 0 THEN RemoveAt(gs, indexOf(gs, g)) ELSE gs

\* the closure onBeforeNavigate(callback) returned, called for the first
\* time or again
UnsubscribeGuard(g) ==
    /\ guards' = unsubscribeGuard(guards, g)
    /\ UNCHANGED <<browserVars, listening, routes, currentRoute, lastRes,
                   authVars, appVars, portalVars, serviceVars>>

NextGuards ==
    \/ Register(ROOT)
    \/ \E g \in GuardCallbacks : OnBeforeNavigate(g)
    \/ \E g \in GuardCallbacks : UnsubscribeGuard(g)
    \/ \E p \in {ROOT, PROFILE} : Navigate(p)
    \/ RouterInit
    \/ HashChange
    \/ HashChangeUnheard

SpecGuards == InitPaths /\ [][NextGuards]_vars

----
(* A UserProfileService over a LocalStorageUserProfileRepository on its    *)
(* own, driven through its public methods                                  *)

InitService ==
    /\ Init
    /\ hash = EMPTY
    /\ hintStore = "absent"
    /\ providerUser = NoUser

\* a caller awaits getOrCreateProfile(authUser)
GetOrCreateProfile(u) ==
    /\ Len(ops) < MaxCalls
    /\ LET b == getOrCreateProfileBegin(cache, store, now, u)
       IN  /\ cache' = b.cache
           /\ ops' = Append(ops, [kind |-> "getOrCreateProfile", caller |-> "api",
                                  uid |-> u, via |-> cacheLookup(cache, u, now),
                                  pc |-> b.pc, res |-> b.res])
    /\ UNCHANGED <<browserVars, routerVars, authVars, appVars, portalVars,
                   now, store, stateCallbacks, delivered>>

\* a caller awaits getProfile(uid)
GetProfile(u) ==
    /\ Len(ops) < MaxCalls
    /\ LET b == getProfileBegin(cache, store, now, u)
       IN  /\ cache' = b.cache
           /\ ops' = Append(ops, [kind |-> "getProfile", caller |-> "api",
                                  uid |-> u, via |-> cacheLookup(cache, u, now),
                                  pc |-> b.pc, res |-> b.res])
    /\ UNCHANGED <<browserVars, routerVars, authVars, appVars, portalVars,
                   now, store, stateCallbacks, delivered>>

\* clearProfile(uid)
ClearProfile(u) ==
    /\ cache' = clearProfile(cache, u)
    /\ delivered' = notifyStateChange(stateCallbacks, delivered, NoProfile)
    /\ UNCHANGED <<browserVars, routerVars, authVars, appVars, portalVars,
                   now, store, stateCallbacks, ops>>

NextService ==
    \/ \E u \in Accounts \cup {NoUser} : GetOrCreateProfile(u)
    \/ \E u \in Accounts \cup {NoUser} : GetProfile(u)
    \/ \E u \in Accounts : ClearProfile(u)
    \/ \E i \in 1..MaxCalls : Resume(i)
    \/ \E i \in 1..MaxCalls : Return(i)
    \/ \E d \in TickSteps : Tick(d)

SpecService == InitService /\ [][NextService]_vars

----
(* The update path of a UserProfileService, its subscribers and the       *)
(* repository, driven through the service's public methods                *)

\* partial preferences a caller passes to updatePreferences
PreferenceInputs ==
    { [theme |-> "light"],
      [language |-> "en"],
      EmptyObject,
      NullObject }

\* partial fields a caller passes to updateProfile
UpdateInputs ==
    { [uid |-> "u2", displayName |-> "X"],
      [createdAt |-> Date(CACHE_TTL_MS)],
      [email |-> NotAString],
      NullObject }

\* the store holds nothing, or the profiles earlier page loads created
InitUpdate ==
    /\ \E had \in {{}, Accounts, Users} :
          InitOver([v \in Users |->
                       IF v \in had
                       THEN serializeUserProfile(
                                createUserProfileFromAuth(authUserOf(v), 0))
                       ELSE Absent], InitialHints)
    /\ hash = EMPTY
    /\ hintStore = "absent"
    /\ providerUser = NoUser

\* a caller awaits updatePreferences(uid, preferences)
UpdatePreferences(u, preferences) ==
    /\ Len(ops) < MaxUpdates
    /\ LET b == updatePreferencesBegin(cache, store, u, preferences)
       IN  ops' = Append(ops, [kind |-> "updatePreferences", caller |-> "api",
                               uid |-> u, updates |-> [preferences |-> preferences],
                               pc |-> b.pc, res |-> b.res])
    /\ UNCHANGED <<browserVars, routerVars, authVars, appVars, portalVars,
                   now, store, cache, stateCallbacks, delivered>>

\* a caller awaits updateProfile(uid, updates)
UpdateProfile(u, updates) ==
    /\ Len(ops) < MaxUpdates
    /\ LET b == updateProfileBegin(cache, store, u)
       IN  ops' = Append(ops, [kind |-> "updateProfile", caller |-> "api",
                               uid |-> u, updates |-> updates,
                               pc |-> b.pc, res |-> b.res])
    /\ UNCHANGED <<browserVars, routerVars, authVars, appVars, portalVars,
                   now, store, cache, stateCallbacks, delivered>>

\* onStateChange(callback)
OnStateChange(s) ==
    /\ Len(stateCallbacks) < MaxSubscribers
    /\ stateCallbacks' = Append(stateCallbacks, s)
    /\ UNCHANGED <<browserVars, routerVars, authVars, appVars, portalVars,
                   now, store, cache, delivered, ops>>

\* the function onStateChange returned: indexOf, then splice
Unsubscribe(s) ==
    /\ \E i \in 1..Len(stateCallbacks) : stateCallbacks[i] = s
    /\ LET index == CHOOSE i \in 1..Len(stateCallbacks) :
                       /\ stateCallbacks[i] = s
                       /\ \A j \in 1..(i - 1) : stateCallbacks[j] # s
       IN  stateCallbacks' = RemoveAt(stateCallbacks, index)
    /\ UNCHANGED <<browserVars, routerVars, authVars, appVars, portalVars,
                   now, store, cache, delivered, ops>>

NextUpdate ==
    \/ \E u \in Accounts : GetOrCreateProfile(u)
    \/ \E u \in Accounts, q \in PreferenceInputs : UpdatePreferences(u, q)
    \/ \E u \in Accounts, q \in UpdateInputs : UpdateProfile(u, q)
    \/ UpdatePreferences(NoUser, EmptyObject)
    \/ UpdateProfile(NoUser, EmptyObject)
    \/ \E i \in 1..(MaxCalls + MaxUpdates) : Resume(i)
    \/ \E i \in 1..(MaxCalls + MaxUpdates) : Return(i)
    \/ Tick(1)

SpecUpdate == InitUpdate /\ [][NextUpdate]_vars

----
(* Overlapping calls of a UserProfileService over the localStorage         *)
(* repository.  A repository method runs to its return without waiting for *)
(* anything outside the page, so the promise a call awaits is settled when *)
(* the await is reached and its continuation is a job of the microtask     *)
(* queue; the jobs run first in, first out.  ops is that queue: its head   *)
(* is the next continuation to run, a continuation that reaches another    *)
(* await queues the call again at the tail, and a call started meanwhile   *)
(* queues behind the ones in flight.                                       *)

\* preferences two controls of the portal set
OverlapInputs == { [theme |-> "light"], [language |-> "en"] }

\* a caller awaits updatePreferences(uid, preferences) while other calls
\* are in flight
UpdatePreferencesMeanwhile(u, preferences) ==
    /\ Len(ops) < MaxOverlap
    /\ LET b == updatePreferencesBegin(cache, store, u, preferences)
       IN  ops' = Append(ops, [kind |-> "updatePreferences", caller |-> "api",
                               uid |-> u, updates |-> [preferences |-> preferences],
                               pc |-> b.pc, res |-> b.res])
    /\ UNCHANGED <<browserVars, routerVars, authVars, appVars, portalVars,
                   now, store, cache, stateCallbacks, delivered>>

\* a caller awaits getOrCreateProfile(authUser) while other calls are in
\* flight
GetOrCreateProfileMeanwhile(u) ==
    /\ Len(ops) < MaxOverlap
    /\ LET b == getOrCreateProfileBegin(cache, store, now, u)
       IN  /\ cache' = b.cache
           /\ ops' = Append(ops, [kind |-> "getOrCreateProfile", caller |-> "api",
                                  uid |-> u, via |-> cacheLookup(cache, u, now),
                                  pc |-> b.pc, res |-> b.res])
    /\ UNCHANGED <<browserVars, routerVars, authVars, appVars, portalVars,
                   now, store, stateCallbacks, delivered>>

\* a caller awaits getProfile(uid) while other calls are in flight
GetProfileMeanwhile(u) ==
    /\ Len(ops) < MaxOverlap
    /\ LET b == getProfileBegin(cache, store, now, u)
       IN  /\ cache' = b.cache
           /\ ops' = Append(ops, [kind |-> "getProfile", caller |-> "api",
                                  uid |-> u, via |-> cacheLookup(cache, u, now),
                                  pc |-> b.pc, res |-> b.res])
    /\ UNCHANGED <<browserVars, routerVars, authVars, appVars, portalVars,
                   now, store, stateCallbacks, delivered>>

\* a scheduler that runs the waiting continuations in any order
ResumeAny ==
    \E i \in 1..Len(ops) : Resume(i)

\* the microtask at the head of the queue runs: the call resumes after its
\* await and, when it reaches the next one, queues again at the tail
ResumeHead ==
    /\ ops # <<>>
    /\ ops[1].pc # "ret"
    /\ LET r == resume(cache, store, now, ops[1])
       IN  /\ cache' = r.cache
           /\ store' = r.store
           /\ ops' = Append(Tail(ops), [ops[1] EXCEPT !.pc = r.pc, !.res = r.res])
    /\ delivered' = IF ops[1].kind \in UpdateKinds /\ ops[1].pc = "updated"
                        /\ ops[1].res.success
                     THEN notifyStateChange(stateCallbacks, delivered, ops[1].res.data)
                     ELSE delivered
    /\ UNCHANGED <<browserVars, routerVars, authVars, appVars, portalVars,
                   now, stateCallbacks>>

\* the microtask at the head of the queue is the caller's continuation
ReturnHead ==
    Return(1)

NextOverlap ==
    \/ \E u \in Accounts, q \in OverlapInputs : UpdatePreferencesMeanwhile(u, q)
    \/ \E u \in Accounts : GetOrCreateProfileMeanwhile(u)
    \/ \E u \in Accounts : GetProfileMeanwhile(u)
    \/ ResumeHead
    \/ ReturnHead
    \/ Tick(CACHE_TTL_MS)

SpecOverlap == InitUpdate /\ [][NextOverlap]_vars

----
(* A LocalStorageUserProfileRepository on its own: update(uid, updates)   *)

RepositoryInputs ==
    { [uid |-> "u2"], [displayName |-> NotAString] }
        \cup { [preferences |-> q] : q \in PreferenceInputs }

\* profiles passed to save
SaveInputs(t) ==
    { createUserProfileFromAuth(authUserOf(u), t) : u \in Accounts }
        \cup { [createUserProfileFromAuth(authUserOf(u), t) EXCEPT !.email = NotAString]
                  : u \in Accounts }
        \cup { NullObject }

\* the store holds nothing, a profile, or text that is not JSON
InitRepository ==
    /\ \E record \in {Absent, Corrupt,
                       serializeUserProfile(createUserProfileFromAuth(authUserOf("u1"), 0))} :
          InitOver([v \in Users |-> IF v \in Accounts THEN record ELSE Absent],
                   InitialHints)
    /\ hash = EMPTY
    /\ hintStore = "absent"
    /\ providerUser = NoUser

\* a repository call that has no await inside: its promise is settled when
\* the call returns
settledCall(kind, u, fault, result) ==
    [kind |-> kind, caller |-> "api", uid |-> u, fault |-> fault,
     updates |-> EmptyObject, pc |-> "ret", res |-> result]

\* a caller awaits findById(uid)
FindById(u, fault) ==
    /\ Len(ops) < MaxUpdates
    /\ ops' = Append(ops, settledCall("findById", u, fault, findByIdUnder(store, u, fault)))
    /\ UNCHANGED <<browserVars, routerVars, authVars, appVars, portalVars,
                   now, store, cache, stateCallbacks, delivered>>

\* a caller awaits save(profile)
Save(profile, fault) ==
    /\ Len(ops) < MaxUpdates
    /\ LET r == saveUnder(store, profile, fault)
       IN  /\ store' = r.store
           /\ ops' = Append(ops, [settledCall("save", NoUser, fault, r.result)
                                     EXCEPT !.updates = profile])
    /\ UNCHANGED <<browserVars, routerVars, authVars, appVars, portalVars,
                   now, cache, stateCallbacks, delivered>>

\* a caller awaits delete(uid)
Delete(u, fault) ==
    /\ Len(ops) < MaxUpdates
    /\ LET r == delete(store, u, fault)
       IN  /\ store' = r.store
           /\ ops' = Append(ops, settledCall("delete", u, fault, r.result))
    /\ UNCHANGED <<browserVars, routerVars, authVars, appVars, portalVars,
                   now, cache, stateCallbacks, delivered>>

\* a caller awaits exists(uid)
Exists(u, fault) ==
    /\ Len(ops) < MaxUpdates
    /\ ops' = Append(ops, settledCall("exists", u, fault, exists(store, u, fault)))
    /\ UNCHANGED <<browserVars, routerVars, authVars, appVars, portalVars,
                   now, store, cache, stateCallbacks, delivered>>

\* a caller awaits update(uid, updates)
Update(u, updates, fault) ==
    /\ Len(ops) < MaxUpdates
    /\ LET b == updateBegin(cache, store, u, fault)
       IN  ops' = Append(ops, [kind |-> "update", caller |-> "api",
                               uid |-> u, fault |-> fault, updates |-> updates,
                               pc |-> b.pc, res |-> b.res])
    /\ UNCHANGED <<browserVars, routerVars, authVars, appVars, portalVars,
                   now, store, cache, stateCallbacks, delivered>>

NextRepository ==
    \/ \E u \in Accounts \cup {NoUser}, f \in StorageFaults : FindById(u, f)
    \/ \E q \in SaveInputs(now), f \in StorageFaults : Save(q, f)
    \/ \E u \in Accounts, q \in RepositoryInputs, f \in StorageFaults : Update(u, q, f)
    \/ Update(NoUser, EmptyObject, "none")
    \/ \E u \in Accounts \cup {NoUser}, f \in StorageFaults : Delete(u, f)
    \/ \E u \in Accounts \cup {NoUser}, f \in StorageFaults : Exists(u, f)
    \/ \E i \in 1..MaxUpdates : Resume(i)
    \/ \E i \in 1..MaxUpdates : Return(i)
    \/ Tick(1)

SpecRepository == InitRepository /\ [][NextRepository]_vars

----
(* A UserProfileService whose storage fails: getOrCreateProfile over a     *)
(* store that may hold an unreadable record, throw on reads or refuse      *)
(* writes                                                                  *)

\* a caller awaits getOrCreateProfile(authUser) while the storage is under
\* fault
GetOrCreateProfileUnder(u, fault) ==
    /\ Len(ops) < MaxCalls
    /\ LET b == getOrCreateProfileBeginUnder(cache, store, now, u, fault)
       IN  /\ cache' = b.cache
           /\ ops' = Append(ops, [kind |-> "getOrCreateProfile", caller |-> "api",
                                  uid |-> u, via |-> cacheLookup(cache, u, now),
                                  fault |-> fault, pc |-> b.pc, res |-> b.res])
    /\ UNCHANGED <<browserVars, routerVars, authVars, appVars, portalVars,
                   now, store, stateCallbacks, delivered>>

NextFailures ==
    \/ \E u \in Accounts \cup {NoUser}, fault \in StorageFaults :
           GetOrCreateProfileUnder(u, fault)
    \/ \E i \in 1..MaxCalls : Resume(i)
    \/ \E i \in 1..MaxCalls : Return(i)
    \/ Tick(CACHE_TTL_MS)

SpecFailures == InitRepository /\ [][NextFailures]_vars

----
(* AuthHintModule on its own, over whatever the storage holds             *)

\* user objects passed to saveHint; the first is null
HintUsers ==
    { [isNull |-> TRUE],
      [displayName |-> "name", photoURL |-> "photo"],
      [displayName |-> "name", photoURL |-> "null"],
      [displayName |-> "", photoURL |-> "photo"],
      [displayName |-> Undefined, photoURL |-> Undefined] }

InitHint ==
    /\ InitOver([u \in Users |-> Absent], HintContents)
    /\ hash = EMPTY
    /\ providerUser = NoUser

\* AuthHintModule.getHint()
GetHint ==
    /\ Len(ops) < MaxCalls
    /\ ops' = Append(ops, [kind |-> "getHint", caller |-> "api", uid |-> NoUser,
                            stored |-> hintStore, user |-> [isNull |-> TRUE],
                            pc |-> "ret", res |-> getHintCall(hintStore)])
    /\ UNCHANGED <<browserVars, routerVars, authVars, appVars, portalVars,
                   now, store, cache, stateCallbacks, delivered>>

\* AuthHintModule.saveHint(user)
SaveHint(user, quota) ==
    /\ Len(ops) < MaxCalls
    /\ LET r == saveHint(hintStore, user, quota)
       IN  /\ hintStore' = r.stored
           /\ ops' = Append(ops, [kind |-> "saveHint", caller |-> "api", uid |-> NoUser,
                                   stored |-> hintStore, user |-> user,
                                   pc |-> "ret", res |-> r.outcome])
    /\ UNCHANGED <<hash, hashEvents, routerVars, authVars, appVars, portalVars,
                   now, store, cache, stateCallbacks, delivered>>

\* AuthHintModule.clearHint()
ClearHint ==
    /\ Len(ops) < MaxCalls
    /\ LET r == clearHint(hintStore)
       IN  /\ hintStore' = r.stored
           /\ ops' = Append(ops, [kind |-> "clearHint", caller |-> "api", uid |-> NoUser,
                                   stored |-> hintStore, user |-> [isNull |-> TRUE],
                                   pc |-> "ret", res |-> r.outcome])
    /\ UNCHANGED <<hash, hashEvents, routerVars, authVars, appVars, portalVars,
                   now, store, cache, stateCallbacks, delivered>>

\* App.init, lines 55-56: the navigation bar rendered from the hint
InitWithHint ==
    /\ navState = "initial"
    /\ navState' = initWithHint(getHint(hintStore))
    /\ UNCHANGED <<browserVars, routerVars, authVars, started, view, loginOp,
                   portalVars, serviceVars>>

NextHint ==
    \/ GetHint
    \/ \E user \in HintUsers, quota \in BOOLEAN : SaveHint(user, quota)
    \/ ClearHint
    \/ InitWithHint
    \/ \E i \in 1..MaxCalls : Return(i)

SpecHint == InitHint /\ [][NextHint]_vars

----
(* An AuthModule on its own: the provider delivers sessions while callers  *)
(* subscribe, unsubscribe and wait for the initialization                  *)

\* new AuthModule(firebaseApp): the provider will call the observer with
\* the session it restored
InitAuth ==
    /\ hash = EMPTY
    /\ hashEvents = 0
    /\ hintStore = "absent"
    /\ listening = FALSE
    /\ routes = {}
    /\ currentRoute = null
    /\ guards = <<>>
    /\ lastRes = NoRes
    /\ providerUser \in Accounts \cup {NoUser}
    /\ authQueue = <<providerUser>>
    /\ currentUser = NoUser
    /\ authInitialized = FALSE
    /\ initializationPromise = Pending
    /\ authStateCallbacks = <<>>
    /\ heard = [s \in AuthSubscribers |-> <<>>]
    /\ started = FALSE
    /\ view = "none"
    /\ navState = "initial"
    /\ loginOp = "idle"
    /\ portalUser = NoUser
    /\ portal = EmptyPortal
    /\ now = 0
    /\ store = [u \in Users |-> Absent]
    /\ cache = [u \in Users |-> NoEntry]
    /\ stateCallbacks = <<>>
    /\ delivered = [s \in Subscribers |-> NotCalled]
    /\ ops = <<>>

\* the observer the constructor passes to this.auth.onAuthStateChanged
AuthStateCallback ==
    /\ authQueue # <<>>
    /\ \A i \in 1..Len(authStateCallbacks) :
           Len(heard[authStateCallbacks[i]]) < MaxHeard
    /\ LET user == Head(authQueue)
       IN  /\ currentUser' = user
           /\ authInitialized' = TRUE
           /\ initializationPromise' =
                  resolveOnFirst(initializationPromise, authInitialized, user)
           /\ heard' = callEach(authStateCallbacks, heard, user)
    /\ authQueue' = Tail(authQueue)
    /\ UNCHANGED <<browserVars, routerVars, providerUser, authStateCallbacks,
                   appVars, portalVars, serviceVars>>

\* signInWithGoogle(): the popup ends with account u signed in
SignInWithGoogle(u) ==
    /\ Len(authQueue) < MaxAuthQueue
    /\ providerUser' = u
    /\ authQueue' = IF u # providerUser THEN Append(authQueue, u) ELSE authQueue
    /\ UNCHANGED <<browserVars, routerVars, currentUser, authInitialized,
                   authListenerVars, appVars, portalVars, serviceVars>>

\* signOut()
SignOut ==
    /\ Len(authQueue) < MaxAuthQueue
    /\ providerUser' = NoUser
    /\ authQueue' = IF providerUser # NoUser
                    THEN Append(authQueue, NoUser) ELSE authQueue
    /\ UNCHANGED <<browserVars, routerVars, currentUser, authInitialized,
                   authListenerVars, appVars, portalVars, serviceVars>>

\* onAuthStateChanged(callback)
OnAuthStateChanged(s) ==
    /\ indexOf(authStateCallbacks, s) = 0
    /\ Len(heard[s]) < MaxHeard
    /\ authStateCallbacks' = Append(authStateCallbacks, s)
    /\ heard' = [heard EXCEPT ![s] = Append(@, currentUser)]
    /\ UNCHANGED <<browserVars, routerVars, providerUser, authQueue, currentUser,
                   authInitialized, initializationPromise, appVars, portalVars,
                   serviceVars>>

\* the closure a call of onAuthStateChanged(callback) returned, called for
\* the first time or again
UnsubscribeAuth(s) ==
    /\ heard[s] # <<>>
    /\ authStateCallbacks' = unsubscribeAuth(authStateCallbacks, s)
    /\ UNCHANGED <<browserVars, routerVars, providerUser, authQueue, currentUser,
                   authInitialized, initializationPromise, heard, appVars,
                   portalVars, serviceVars>>

\* waitForAuthInitialization(), up to the caller's await
WaitForAuthInitialization ==
    /\ Len(ops) < MaxWaiters
    /\ ops' = Append(ops, [kind |-> "waitForAuthInitialization", caller |-> "api",
                           pc |-> "await", res |-> Pending])
    /\ UNCHANGED <<browserVars, routerVars, authVars, appVars, portalVars,
                   now, store, cache, stateCallbacks, delivered>>

\* the awaited promise is fulfilled: the caller's continuation is scheduled
\* with the promise's value
Fulfilled(i) ==
    /\ i \in 1..Len(ops)
    /\ ops[i].pc = "await"
    /\ initializationPromise.state = "fulfilled"
    /\ ops' = [ops EXCEPT ![i].pc = "ret", ![i].res = initializationPromise.value]
    /\ UNCHANGED <<browserVars, routerVars, authVars, appVars, portalVars,
                   now, store, cache, stateCallbacks, delivered>>

NextAuth ==
    \/ AuthStateCallback
    \/ \E u \in Accounts : SignInWithGoogle(u)
    \/ SignOut
    \/ \E s \in AuthSubscribers : OnAuthStateChanged(s)
    \/ \E s \in AuthSubscribers : UnsubscribeAuth(s)
    \/ WaitForAuthInitialization
    \/ \E i \in 1..MaxWaiters : Fulfilled(i)
    \/ \E i \in 1..MaxWaiters : Return(i)

SpecAuth == InitAuth /\ [][NextAuth]_vars

----
(* The state-change notifications of a UserProfileService: subscribers    *)
(* come and go while updates succeed and fail and profiles are cleared    *)

NotifyPreferenceInputs == { [theme |-> "light"], NullObject }
NotifyUpdateInputs == { [preferences |-> [theme |-> "light"]], [email |-> NotAString] }

NextNotify ==
    \/ \E u \in Users, q \in NotifyPreferenceInputs : UpdatePreferences(u, q)
    \/ \E u \in Accounts, q \in NotifyUpdateInputs : UpdateProfile(u, q)
    \/ UpdateProfile(NoUser, EmptyObject)
    \/ \E s \in Subscribers : OnStateChange(s)
    \/ \E s \in Subscribers : Unsubscribe(s)
    \/ \E u \in Users \cup {NoUser} : ClearProfile(u)
    \/ \E i \in 1..MaxUpdates : Resume(i)
    \/ \E i \in 1..MaxUpdates : Return(i)

SpecNotify == InitUpdate /\ [][NextNotify]_vars

----
(* Subscribers that unsubscribe while a notification is being delivered:  *)
(* the callback of a subscriber calls the closure onStateChange returned   *)
(* for it, which splices this.stateCallbacks, the array the forEach of     *)
(* notifyStateChange is walking                                            *)

\* the closure onStateChange returns: indexOf, then splice if index > -1
unsubscribeState(cbs, s) ==
    IF indexOf(cbs, s) > 0 THEN RemoveAt(cbs, indexOf(cbs, s)) ELSE cbs

\* Array.prototype.forEach on the live array: the length is read once, then
\* for k = 0 .. length - 1 the element at index k is visited if the array
\* still has that index (k and len count from 1 here).  leaving is the set
\* of subscribers whose callback calls its own unsubscribe closure.
RECURSIVE forEachLive(_, _, _, _, _, _)
forEachLive(cbs, k, len, dl, profile, leaving) ==
    IF k > len
    THEN [stateCallbacks |-> cbs, delivered |-> dl]
    ELSE IF k > Len(cbs)
    THEN forEachLive(cbs, k + 1, len, dl, profile, leaving)
    ELSE forEachLive(IF cbs[k] \in leaving
                     THEN unsubscribeState(cbs, cbs[k]) ELSE cbs,
                     k + 1, len, [dl EXCEPT ![cbs[k]] = profile],
                     profile, leaving)

\* clearProfile(uid), the callbacks of leaving unsubscribing when called
ClearProfileLeaving(u, leaving) ==
    /\ cache' = clearProfile(cache, u)
    /\ LET r == forEachLive(stateCallbacks, 1, Len(stateCallbacks), delivered,
                            NoProfile, leaving)
       IN  /\ stateCallbacks' = r.stateCallbacks
           /\ delivered' = r.delivered
    /\ UNCHANGED <<browserVars, routerVars, authVars, appVars, portalVars,
                   now, store, ops>>

NextLeaving ==
    \/ \E u \in Accounts, q \in NotifyPreferenceInputs : UpdatePreferences(u, q)
    \/ \E s \in Subscribers : OnStateChange(s)
    \/ \E s \in Subscribers : Unsubscribe(s)
    \/ \E u \in Accounts \cup {NoUser}, leaving \in SUBSET Subscribers :
          ClearProfileLeaving(u, leaving)
    \/ \E i \in 1..MaxUpdates : Resume(i)
    \/ \E i \in 1..MaxUpdates : Return(i)

SpecLeaving == InitUpdate /\ [][NextLeaving]_vars

----
(* Properties *)

\* C1: a call of handleRouteChange (from the hashchange listener or from
\* init) made while AuthModule holds no user and the stored hint is absent
\* or does not say isAuthenticated = true neither sets currentRoute to
\* '/profile' nor runs the '/profile' handler.
C1_ProfileRouteGuarded ==
    [][ ((HashChange \/ AppInit)
          /\ ~isAuthenticated
          /\ ~hintClaimsAuth(getHint(hintStore)))
        => /\ lastRes'.handler # PROFILE
           /\ ~(lastRes'.outcome = "committed" /\ currentRoute' = PROFILE)
           /\ (currentRoute' = PROFILE => currentRoute = PROFILE)
           /\ view' # "profile" \/ view = "profile" ]_vars

\* a visit of '/profile' was denied with nobody signed in and no hint
\* claiming a session
C1_Witness ==
    /\ lastRes.outcome = "cancelled"
    /\ lastRes.path = PROFILE
    /\ lastRes.consulted = 1
    /\ ~isAuthenticated
    /\ hintStore \in {"absent", "false", "notJSON"}
    /\ currentRoute # PROFILE

\* C2: when the auth-state callback delivers null while a user u was signed
\* in, the service cache holds no entry for u.uid once the callback has
\* been processed.
C2_SignOutClearsCache ==
    [][ (DeliverAuthState /\ Head(authQueue) = NoUser /\ currentUser # NoUser)
        => cache'[currentUser] = NoEntry ]_vars

C4_HintNeverAuthorizes ==
    [][ (HashChange /\ authInitialized /\ ~isAuthenticated)
        => ~(lastRes'.outcome = "committed" /\ currentRoute' = PROFILE) ]_vars

\* C5: after an auth-state callback that delivers a user the stored hint
\* says isAuthenticated = true, and after one that delivers null the hint
\* is absent.
C5_HintTracksAuthState ==
    [][ DeliverAuthState
        => IF Head(authQueue) # NoUser
           THEN hintClaimsAuth(getHint(hintStore'))
           ELSE hintStore' = "absent" ]_vars

\* some registered guard returns exactly false for the path in the hash
someGuardDenies ==
    \E i \in 1..Len(guards) :
        callGuard(guards[i], getPathFromHash(hash), currentRoute).ret = "false"

\* C6: a resolution of a path other than currentRoute in which a registered
\* guard returns exactly false leaves currentRoute as it was and runs no
\* handler, neither the path's nor the one of '/'.
C6_GuardCancels ==
    [][ ((HashChange \/ RouterInit)
          /\ getPathFromHash(hash) # currentRoute
          /\ someGuardDenies)
        => /\ currentRoute' = currentRoute
           /\ lastRes'.outcome = "cancelled"
           /\ lastRes'.handler = null
           /\ view' = view ]_vars

\* navigating from '/' to '/profile' was cancelled with both routes
\* registered
C6_Witness ==
    /\ lastRes.outcome = "cancelled"
    /\ lastRes.old = ROOT
    /\ lastRes.path = PROFILE
    /\ currentRoute = ROOT
    /\ {ROOT, PROFILE} \subseteq routes
    /\ view = "home"

\* C7: after a cancelled resolution the path derived from the hash is the
\* route that was current before (the root when there was none yet), and
\* the restore queues no hashchange event.
C7_CancelRestoresHash ==
    [][ ((HashChange \/ RouterInit)
          /\ getPathFromHash(hash) # currentRoute
          /\ someGuardDenies)
        => /\ getPathFromHash(hash') = (IF currentRoute = null THEN ROOT ELSE currentRoute)
           /\ hashEvents' <= hashEvents ]_vars

\* C8: a hashchange whose path equals currentRoute consults no guard, runs
\* no handler and changes nothing of the router, the hash or the view.
C8_SameRouteIsNoOp ==
    [][ (HashChange /\ getPathFromHash(hash) = currentRoute)
        => /\ lastRes'.outcome = "same"
           /\ lastRes'.consulted = 0
           /\ lastRes'.handler = null
           /\ UNCHANGED <<currentRoute, routes, guards, listening, hash, view>>
           /\ hashEvents' = hashEvents - 1 ]_vars

\* '/profile' was navigated to again while current, with a denying guard
\* and its handler registered
C8_Witness ==
    /\ lastRes.outcome = "same"
    /\ lastRes.path = PROFILE
    /\ currentRoute = PROFILE
    /\ PROFILE \in routes
    /\ \E i \in 1..Len(guards) : guards[i] = "deny"

\* C9: a resolution of a path other than currentRoute in which no guard
\* returns false sets currentRoute to the path and runs one handler: the
\* path's, else the one of '/', else none.
C9_CommitRunsOneHandler ==
    [][ ((HashChange \/ RouterInit)
          /\ getPathFromHash(hash) # currentRoute
          /\ ~someGuardDenies)
        => LET path == getPathFromHash(hash)
               expected == IF path \in routes THEN path
                           ELSE IF ROOT \in routes THEN ROOT
                           ELSE null
           IN  /\ currentRoute' = path
               /\ lastRes'.outcome = "committed"
               /\ lastRes'.handler = expected
               /\ lastRes'.consulted = Len(guards)
               /\ view' = viewAfter(expected, view) ]_vars

\* an unregistered path was committed and the handler of '/' ran
C9_Witness ==
    /\ lastRes.outcome = "committed"
    /\ lastRes.path = <<"/", "y">>
    /\ lastRes.handler = ROOT
    /\ currentRoute = <<"/", "y">>
    /\ view = "home"
    /\ guards # <<>>

\* C10: getProfile and getOrCreateProfile called for a uid with a cache
\* entry: when now - timestamp is at most 5 minutes the call returns the
\* entry's profile without a repository call and leaves the cache, the
\* timestamp included, as it was; when it is more the entry is removed
\* and the call is suspended at the repository's findById.
C10_CacheTTL ==
    [][ \A u \in Users :
          ((GetProfile(u) \/ GetOrCreateProfile(u)) /\ cache[u] # NoEntry)
          => LET age == now - cache[u].timestamp
                 call == ops'[Len(ops')]
             IN  IF age <= 5 * 60 * 1000
                 THEN /\ call.pc = "ret"
                      /\ call.res = success(cache[u].profile)
                      /\ cache' = cache
                      /\ store' = store
                 ELSE /\ call.pc = "find"
                      /\ call.res = findById(store, u)
                      /\ cache'[u] = NoEntry
                      /\ store' = store ]_vars

\* getOrCreateProfile was answered from the cache entry stored at time 0;
\* one millisecond past the entry's 5 minutes getProfile found it expired,
\* removed it and is suspended at findById
C10_Witness ==
    \E i, j \in 1..Len(ops) :
        /\ ops[i].kind = "getOrCreateProfile"
        /\ ops[i].via = "hit"
        /\ ops[i].pc = "ret"
        /\ ops[i].res.success
        /\ ops[i].res.data.updatedAt = Date(0)
        /\ ops[j].kind = "getProfile"
        /\ ops[j].uid = ops[i].uid
        /\ ops[j].via = "expired"
        /\ ops[j].pc = "find"
        /\ cache[ops[j].uid] = NoEntry
        /\ now = CACHE_TTL_MS + 1

\* C11: getOrCreateProfile resumed with findById's "no record" for a uid
\* saves a new profile with that uid, the default preferences and
\* createdAt = updatedAt; resumed with the save's success it returns that
\* profile as a success and leaves it in the cache under the uid.
C11_CreatesDefaultProfile ==
    [][ \A i \in 1..Len(ops) :
          (Resume(i) /\ ops[i].kind = "getOrCreateProfile")
          => LET u == ops[i].uid
             IN  /\ (ops[i].pc = "find" /\ ops[i].res.success /\ ops[i].res.data = NoProfile)
                    => LET created == ops'[i].res.data
                       IN  /\ ops'[i].pc = "save"
                           /\ ops'[i].res.success
                           /\ created.uid = u
                           /\ created.preferences = [theme |-> "system", emailNotifications |-> TRUE]
                           /\ created.createdAt = created.updatedAt
                           /\ created.createdAt = Date(now)
                           /\ store'[u] # Absent
                           /\ deserializeUserProfile(store'[u]) = created
                 /\ (ops[i].pc = "save" /\ ops[i].res.success)
                    => /\ ops'[i].pc = "ret"
                       /\ ops'[i].res = success(ops[i].res.data)
                       /\ cache'[u] # NoEntry
                       /\ cache'[u].profile = ops[i].res.data ]_vars

\* a call that found neither cache entry nor record has returned the
\* profile it created, which is both stored and cached
C11_Witness ==
    \E i \in 1..Len(ops) :
        /\ ops[i].kind = "getOrCreateProfile"
        /\ ops[i].via = "miss"
        /\ ops[i].pc = "ret"
        /\ ops[i].res.success
        /\ ops[i].res.data.createdAt = Date(1)
        /\ cache[ops[i].uid] # NoEntry
        /\ cache[ops[i].uid].profile = ops[i].res.data
        /\ store[ops[i].uid] = serializeUserProfile(ops[i].res.data)

\* C12: the repository's save runs for a uid only while no record is
\* stored for it, and a stored record's createdAt never changes.
C12_CreatedOnce ==
    [][ /\ \A i \in 1..Len(ops) :
             (Resume(i) /\ ops[i].kind = "getOrCreateProfile" /\ ops'[i].pc = "save")
             => store[ops[i].uid] = Absent
        /\ \A u \in Users :
             store[u] # Absent
             => (store'[u] # Absent /\ store'[u].createdAt = store[u].createdAt) ]_vars

\* an updatePreferences / updateProfile call whose await of repository.update
\* is over resumes in this step
updateResumes(i) ==
    /\ i \in 1..Len(ops)
    /\ ops[i].kind \in UpdateKinds
    /\ ops[i].pc = "updated"
    /\ Resume(i)

throwingRegistered ==
    \E k \in 1..Len(stateCallbacks) : stateCallbacks[k] \in Throwing

\* C14: while a callback that throws is registered, a notification (by a
\* successful updatePreferences / updateProfile, or by clearProfile) still
\* calls every registered callback with the one value, and the update
\* returns the repository's result to its caller instead of the exception.
C14_ThrowingCallbackIsolated ==
    [][ throwingRegistered =>
          /\ \A i \in 1..MaxUpdates :
                (updateResumes(i) /\ ops[i].res.success) =>
                   /\ \A k \in 1..Len(stateCallbacks) :
                         delivered'[stateCallbacks[k]] = ops[i].res.data
                   /\ ops'[i].pc = "ret"
                   /\ ops'[i].res = ops[i].res
          /\ \A u \in Users \cup {NoUser} :
                ClearProfile(u) =>
                   \A k \in 1..Len(stateCallbacks) :
                      delivered'[stateCallbacks[k]] = NoProfile ]_vars

\* the throwing callback s1 was registered before s2; an update succeeded,
\* both were called with the profile and the caller has the success
C14_Witness ==
    /\ stateCallbacks = <<"s1", "s2">>
    /\ "s1" \in Throwing
    /\ \E i \in 1..Len(ops) :
          /\ ops[i].kind \in UpdateKinds
          /\ ops[i].pc = "ret"
          /\ ops[i].res.success
          /\ delivered["s1"] = ops[i].res.data
          /\ delivered["s2"] = ops[i].res.data

updateSucceeds(i) ==
    /\ i \in 1..Len(ops)
    /\ ops[i].kind = "update"
    /\ ops[i].pc = "merge"
    /\ Resume(i)
    /\ ops'[i].res.success

\* C16: a successful update(uid, updates) returns and persists preferences
\* that hold every key of the preferences it read with the old value, unless
\* updates.preferences supplies the key, in which case the supplied value;
\* the keys are exactly those of the two objects, so none is dropped.
C16_PreferencesDeepMerged ==
    [][ \A i \in 1..MaxUpdates :
          updateSucceeds(i) =>
             LET existing == ops[i].res.data.preferences
                 partial  == preferencesOf(ops[i].updates)
                 result   == ops'[i].res.data.preferences
             IN  /\ DOMAIN result = DOMAIN existing \cup DOMAIN partial
                 /\ \A k \in DOMAIN existing \ DOMAIN partial : result[k] = existing[k]
                 /\ \A k \in DOMAIN partial : result[k] = partial[k]
                 /\ store'[ops[i].uid].preferences = result ]_vars

\* update(uid, {preferences: {theme: 'light'}}) on the default preferences
\* returned and stored {theme: 'light', emailNotifications: true}
C16_Witness ==
    \E i \in 1..Len(ops) :
        /\ ops[i].kind = "update"
        /\ ops[i].pc = "ret"
        /\ ops[i].updates = [preferences |-> [theme |-> "light"]]
        /\ ops[i].res.success
        /\ ops[i].res.data.preferences = [theme |-> "light", emailNotifications |-> TRUE]
        /\ store[ops[i].uid].preferences = [theme |-> "light", emailNotifications |-> TRUE]

\* C17: a successful update(uid, updates), whatever uid the updates carry,
\* returns a profile whose uid is the argument, persists that profile under
\* the argument's key, and leaves the record of every other uid as it was
\* (absent ones stay absent).
C17_UidImmutableUnderUpdate ==
    [][ \A i \in 1..MaxUpdates :
          updateSucceeds(i) =>
             /\ ops'[i].res.data.uid = ops[i].uid
             /\ store'[ops[i].uid] = serializeUserProfile(ops'[i].res.data)
             /\ store'[ops[i].uid].uid = ops[i].uid
             /\ \A v \in Users \ {ops[i].uid} : store'[v] = store[v] ]_vars

\* update('u1', {uid: 'u2'}) succeeded: the returned and the stored
\* profile are u1's, and nothing was stored for u2
C17_Witness ==
    \E i \in 1..Len(ops) :
        /\ ops[i].kind = "update"
        /\ ops[i].pc = "ret"
        /\ ops[i].uid = "u1"
        /\ ops[i].updates = [uid |-> "u2"]
        /\ ops[i].res.success
        /\ ops[i].res.data.uid = "u1"
        /\ store["u1"] # Absent /\ store["u1"].uid = "u1"
        /\ store["u2"] = Absent

\* C18: a stored profile's createdAt never changes, a successful
\* updatePreferences / updateProfile stamps the stored updatedAt with the
\* time of the update, and every stored profile has updatedAt >= createdAt.
C18_TimestampsOrdered ==
    [][ /\ \A u \in Users :
             (store[u] # Absent /\ store'[u] # Absent)
             => store'[u].createdAt = store[u].createdAt
        /\ \A i \in 1..Len(ops) :
             (ops[i].kind \in UpdateKinds /\ ops[i].pc = "merge" /\ Resume(i)
                  /\ ops'[i].res.success)
             => store'[ops[i].uid].updatedAt = ISOString(now)
        /\ \A u \in Users :
             store'[u] # Absent
             => newDate(store'[u].updatedAt).ms >= newDate(store'[u].createdAt).ms ]_vars

\* stored values that are absent, not JSON, JSON of a non-object, or JSON
\* of an object without a boolean isAuthenticated; an inaccessible storage
MissingOrMalformed ==
    {"absent", "empty", "notJSON", "null", "number", "noField", "nonBoolean",
     "inaccessible"}

\* C19: getHint() ends without an exception whatever is stored; for a
\* missing or malformed value it returns null, otherwise the parsed hint
\* with its boolean isAuthenticated; with a missing or malformed value the
\* profile guard decides as for an unauthenticated visitor and the initial
\* render shows the navigation bar of an unauthenticated visitor.
C19_GetHintResilient ==
    [][ /\ GetHint =>
             LET o == ops'[Len(ops')].res
             IN  /\ ~o.thrown
                 /\ hintStore \in MissingOrMalformed => o.value = NoHint
                 /\ hintStore \notin MissingOrMalformed =>
                       /\ o.value # NoHint
                       /\ o.value = JSONparse(hintStore).value
                       /\ o.value.isAuthenticated \in BOOLEAN
        /\ hintStore \in MissingOrMalformed =>
             /\ profileGuardDenies(FALSE, getHint(hintStore))
             /\ InitWithHint => navState' = navAfterAuthState(NoUser) ]_vars

\* getHint() returned null over a text that is not JSON and, after a
\* saveHint, the stored hint with its name and photo
C19_Witness ==
    \E i, j \in 1..Len(ops) :
        /\ ops[i].kind = "getHint"
        /\ ops[i].stored = "notJSON"
        /\ ops[i].res = returns(NoHint)
        /\ ops[j].kind = "getHint"
        /\ ops[j].stored = "trueNamePhoto"
        /\ ops[j].res = returns(hintObject(TRUE, "name", "photo"))

\* C20: saveHint and clearHint end without an exception.  saveHint(null)
\* and clearHint() leave no hint to read, however often they are called;
\* saveHint(user), when the storage takes the write, stores the hint
\* {isAuthenticated: true, displayName, photoURL} of the user (falsy fields
\* as null) and getHint() then returns exactly that hint; when the storage
\* refuses the write the stored value stays.  Whatever the module writes
\* is a hint with isAuthenticated = true.
C20_HintWriteProtocol ==
    [][ /\ \A user \in HintUsers, quota \in BOOLEAN :
             SaveHint(user, quota) =>
                /\ ~ops'[Len(ops')].res.thrown
                /\ user = [isNull |-> TRUE] =>
                      /\ hintStore' \in {"absent", "inaccessible"}
                      /\ getHintCall(hintStore') = returns(NoHint)
                /\ (user # [isNull |-> TRUE] /\ ~quota /\ hintStore # "inaccessible") =>
                      getHintCall(hintStore') =
                         returns([isNull |-> FALSE, isAuthenticated |-> TRUE,
                                  displayName |-> IF user.displayName \in {"", Undefined}
                                                  THEN "null" ELSE user.displayName,
                                  photoURL |-> IF user.photoURL \in {"", Undefined}
                                               THEN "null" ELSE user.photoURL])
                /\ (user # [isNull |-> TRUE] /\ (quota \/ hintStore = "inaccessible")) =>
                      hintStore' = hintStore
        /\ ClearHint =>
             /\ ~ops'[Len(ops')].res.thrown
             /\ hintStore' \in {"absent", "inaccessible"}
             /\ getHintCall(hintStore') = returns(NoHint)
             /\ hintStore \in {"absent", "inaccessible"} => hintStore' = hintStore
        /\ hintStore' # hintStore =>
             \/ hintStore' = "absent"
             \/ getHint(hintStore') # NoHint /\ getHint(hintStore').isAuthenticated ]_vars

\* saveHint(user) replaced a stored {isAuthenticated: false} and the next
\* getHint() returned the user's hint
C20_Witness ==
    \E i, j \in 1..Len(ops) :
        /\ i < j
        /\ ops[i].kind = "saveHint"
        /\ ops[i].stored = "false"
        /\ ops[i].user = [displayName |-> "name", photoURL |-> "photo"]
        /\ ops[j].kind = "getHint"
        /\ ops[j].res = returns(hintObject(TRUE, "name", "photo"))
        /\ hintStore = "trueNamePhoto"

\* a Result that is a failure with a message and the given code
failsWith(r, code) ==
    /\ r # Rejected
    /\ ~r.success
    /\ DOMAIN r = {"success", "error", "code"}
    /\ r.code = code

\* C21: under every storage fault and stored content, findById, save,
\* update, delete and exists settle with a Result and never reject; a
\* throwing or corrupted read gives READ_ERROR, a quota error on the write
\* of save or update gives QUOTA_EXCEEDED, any other storage exception the
\* method's own code, and a call that fails leaves the store as it was.
C21_RepositoryIsExceptionBoundary ==
    [][ /\ \A i \in 1..Len(ops') :
             ops'[i].kind \in {"findById", "save", "update", "delete", "exists"}
             => /\ ops'[i].res # Rejected
                /\ ~ops'[i].res.success =>
                      DOMAIN ops'[i].res = {"success", "error", "code"}
        /\ Len(ops') = Len(ops) + 1 =>
             LET call == ops'[Len(ops')]
                 badRead == /\ call.uid # NoUser
                            /\ (call.fault = "throws" \/ store[call.uid] = Corrupt)
             IN  /\ (call.kind \in {"findById", "update"} /\ badRead)
                       => failsWith(call.res, "READ_ERROR")
                 /\ (call.kind = "delete" /\ call.uid # NoUser /\ call.fault = "throws")
                       => failsWith(call.res, "DELETE_ERROR")
                 /\ (call.kind = "exists" /\ call.uid # NoUser /\ call.fault = "throws")
                       => failsWith(call.res, "EXISTS_ERROR")
                 /\ (call.kind = "save" /\ validateUserProfile(call.updates))
                       => /\ call.fault = "quota"
                               => failsWith(call.res, "QUOTA_EXCEEDED")
                          /\ call.fault = "throws"
                               => failsWith(call.res, "SAVE_ERROR")
        /\ \A i \in 1..Len(ops) :
             (ops[i].kind = "update" /\ ops[i].pc = "merge" /\ Resume(i)
                /\ ops[i].res.success /\ ops[i].res.data # NoProfile
                /\ ops[i].updates # NullObject
                /\ validateUserProfile(mergeUpdates(ops[i].res.data, ops[i].updates, now)))
             => /\ ops[i].fault = "quota"  => failsWith(ops'[i].res, "QUOTA_EXCEEDED")
                /\ ops[i].fault = "throws" => failsWith(ops'[i].res, "UPDATE_ERROR")
        /\ (Len(ops') = Len(ops) + 1 /\ ~ops'[Len(ops')].res.success) => store' = store
        /\ \A i \in 1..Len(ops) :
             (Resume(i) /\ ~ops'[i].res.success) => store' = store ]_vars

\* save hit the quota and returned QUOTA_EXCEEDED without writing
C21_Witness ==
    \E i \in 1..Len(ops) :
        /\ ops[i].kind = "save"
        /\ ops[i].fault = "quota"
        /\ failsWith(ops[i].res, "QUOTA_EXCEEDED")
        /\ store["u1"] = Absent

\* C22: serializing a profile and deserializing the record gives back the
\* profile, createdAt and updatedAt to the millisecond and every other
\* field as it was; so right after a successful save or update, findById
\* returns a profile equal to the one saved, and every findById returns the
\* deserialized record.
C22_SerializationRoundTrip ==
    [][ /\ Len(ops') = Len(ops) + 1 =>
             LET call == ops'[Len(ops')]
             IN  /\ (call.kind = "save" /\ call.res.success) =>
                       LET profile == call.updates
                           back == deserializeUserProfile(serializeUserProfile(profile))
                       IN  /\ back.createdAt.ms = profile.createdAt.ms
                           /\ back.updatedAt.ms = profile.updatedAt.ms
                           /\ back = profile
                           /\ call.res.data = profile
                           /\ findById(store', profile.uid) = success(profile)
                 /\ (call.kind = "findById" /\ call.res.success
                         /\ call.res.data # NoProfile) =>
                       serializeUserProfile(call.res.data) = store[call.uid]
        /\ \A i \in 1..Len(ops) :
             (ops[i].kind = "update" /\ ops[i].pc = "merge" /\ Resume(i)
                 /\ ops'[i].res.success)
             => findById(store', ops[i].uid) = success(ops'[i].res.data) ]_vars

\* a profile stamped at 1 ms was saved, and findById returned it with both
\* timestamps at 1 ms
C22_Witness ==
    \E i \in 1..Len(ops) :
        /\ ops[i].kind = "findById"
        /\ ops[i].res.success
        /\ ops[i].res.data = createUserProfileFromAuth(authUserOf("u1"), 1)
        /\ store["u1"].createdAt = ISOString(1)

\* C23: the promise behind waitForAuthInitialization() is pending until the
\* provider's first auth-state callback, which fulfils it with the user (or
\* null) that callback delivers; no later callback and no other step changes
\* it, and a caller that awaits it resumes only once it is fulfilled, with
\* that value.
C23_ResolvesOnceWithFirstCallback ==
    /\ initializationPromise = Pending
    /\ [][ /\ IF authQueue # <<>> /\ authQueue' = Tail(authQueue)
              THEN initializationPromise' =
                       IF initializationPromise = Pending
                       THEN fulfilled(Head(authQueue))
                       ELSE initializationPromise
              ELSE initializationPromise' = initializationPromise
           /\ \A i \in 1..Len(ops) :
                (/\ Len(ops') = Len(ops)
                 /\ ops[i].kind = "waitForAuthInitialization"
                 /\ ops[i].pc = "await"
                 /\ ops'[i].pc = "ret")
                => /\ initializationPromise.state = "fulfilled"
                   /\ ops'[i].res = initializationPromise.value ]_vars

\* the first callback delivered the signed-in user, a later one null, and a
\* caller of waitForAuthInitialization() resumed with the user
C23_Witness ==
    /\ initializationPromise = fulfilled("u1")
    /\ currentUser = NoUser
    /\ authQueue = <<>>
    /\ \E i \in 1..Len(ops) :
           /\ ops[i].kind = "waitForAuthInitialization"
           /\ ops[i].pc = "ret"
           /\ ops[i].res = "u1"

C25_PathsNormalized ==
    LET wellFormed(path) == /\ startsWith(path, "/")
                            /\ endsWith(path, "/") => path = ROOT
    IN  /\ \A key \in routes : wellFormed(key)
        /\ currentRoute # null => wellFormed(currentRoute)

\* C26: every Result a repository operation returns has a field ok; with ok
\* true it has data, with ok false it has error and code.
C26_ResultShape ==
    \A i \in 1..Len(ops) :
        ops[i].pc = "ret" =>
            LET r == ops[i].res
            IN  /\ "ok" \in DOMAIN r
                /\ r.ok => "data" \in DOMAIN r
                /\ ~r.ok => {"error", "code"} \subseteq DOMAIN r

\* C27: a getProfile(uid) call leaves the store as it is at its call and at
\* its resumption; called for a uid without a stored record it is handed
\* success(null) by findById, returns it, and the cache is the same after
\* each of its two steps; it never touches another uid's cache entry, and
\* it fills the uid's entry only with a profile that findById returned.
C27_GetProfileNeverCreates ==
    [][ /\ Len(ops') = Len(ops) + 1 =>
             LET call == ops'[Len(ops')]
             IN  call.kind = "getProfile" =>
                   /\ store' = store
                   /\ \A u \in Users : cache'[u] \in {cache[u], NoEntry}
                   /\ (call.uid # NoUser /\ store[call.uid] = Absent) =>
                         /\ call.pc = "find"
                         /\ call.res = success(NoProfile)
                         /\ cache' = cache
        /\ \A i \in 1..Len(ops) :
             (/\ Len(ops') = Len(ops)
              /\ ops[i].kind = "getProfile"
              /\ ops[i].pc = "find"
              /\ ops'[i].pc = "ret")
             => /\ store' = store
                /\ ops'[i].res = ops[i].res
                /\ \A u \in Users \ {ops[i].uid} : cache'[u] = cache[u]
                /\ IF ops[i].res.success /\ ops[i].res.data # NoProfile
                   THEN getCached(cache', ops[i].uid, now).profile = ops[i].res.data
                   ELSE cache' = cache ]_vars

\* getProfile('u1') has returned success(null): nothing is stored under u1
\* and nothing is cached for it
C27_Witness ==
    /\ store["u1"] = Absent
    /\ cache["u1"] = NoEntry
    /\ \E i \in 1..Len(ops) :
           /\ ops[i].kind = "getProfile"
           /\ ops[i].uid = "u1"
           /\ ops[i].pc = "ret"
           /\ ops[i].res = success(NoProfile)

C29_NavigateOnlySetsHash ==
    [][ /\ hashEvents' = hashEvents + 1 =>
              /\ \E p \in NavigateInputs :
                     LET n == normalizePath(p)
                     IN  hash' = IF n = ROOT THEN EMPTY ELSE <<"#">> \o n
              /\ hash' # hash
              /\ currentRoute' = currentRoute
              /\ routes' = routes
              /\ guards' = guards
              /\ lastRes' = lastRes
              /\ view' = view
              /\ listening' = listening
        /\ (currentRoute' # currentRoute \/ lastRes' # lastRes \/ view' # view) =>
              \/ ~listening /\ listening'
              \/ listening /\ hashEvents > 0 /\ hashEvents' = hashEvents - 1
        /\ ~listening' =>
              /\ currentRoute' = currentRoute /\ currentRoute = null
              /\ lastRes' = lastRes /\ lastRes = NoRes
              /\ view' = view ]_vars

\* after init() showed the home view, navigate('/profile') or
\* navigate('profile/') has set the hash: the notification is pending, a
\* guard and the profile handler are registered, and the route and the view
\* are still those of home
C29_Witness ==
    /\ listening
    /\ hash = <<"#">> \o PROFILE
    /\ hashEvents = 1
    /\ currentRoute = ROOT
    /\ view = "home"
    /\ PROFILE \in routes
    /\ guards # <<>>

\* C30: when the last resolution was a transition to '/profile' that the
\* profile guard denied, and the one notification its navigate('/') queued
\* is resolved with the hash as that resolution left it, the home view is
\* shown and currentRoute is '/'.
C30_DeniedNavigationEndsHome ==
    [][ (/\ HashChange
         /\ hashEvents = 1
         /\ lastRes.outcome = "cancelled"
         /\ lastRes.path = PROFILE
         /\ hash = lastRes.restored)
        => /\ view' = "home"
           /\ currentRoute' = ROOT ]_vars

\* C31: once App.init() has run on a stored hint with isAuthenticated true,
\* the navigation bar shows the pending authenticated presentation for as
\* long as the provider has not delivered its first auth state.
C31_HintRendersUntilFirstAuthState ==
    (/\ started
     /\ ~authInitialized
     /\ getHint(hintStore) # NoHint
     /\ getHint(hintStore).isAuthenticated)
    => navState = "pending"

\* C32: a getOrCreateProfile call without a user returns INVALID_USER at
\* once and changes neither store nor cache; a call whose findById failed
\* returns that failure on resumption and leaves the store (so also an
\* unreadable record) and the cache as they are; a call whose save failed
\* returns that failure, and the store and the cache are unchanged by the
\* failed save and by the return.  No step of a call that ends in a
\* failure adds a cache entry.
C32_FailuresPropagateWithoutEffects ==
    [][ /\ Len(ops') = Len(ops) + 1 =>
             LET call == ops'[Len(ops')]
             IN  call.kind = "getOrCreateProfile" =>
                   /\ store' = store
                   /\ \A u \in Users : cache'[u] \in {cache[u], NoEntry}
                   /\ call.uid = NoUser =>
                         /\ call.pc = "ret"
                         /\ failsWith(call.res, "INVALID_USER")
                         /\ cache' = cache
        /\ \A i \in 1..Len(ops) :
             (/\ Len(ops') = Len(ops)
              /\ ops[i].kind = "getOrCreateProfile"
              /\ ops[i].pc # ops'[i].pc)
             => /\ (ops[i].pc = "find" /\ ~ops[i].res.success) =>
                      /\ ops'[i].pc = "ret"
                      /\ ops'[i].res = ops[i].res
                      /\ store' = store
                      /\ cache' = cache
                /\ (ops[i].pc = "find" /\ ops'[i].pc = "save"
                        /\ ~ops'[i].res.success) =>
                      /\ store' = store
                      /\ cache' = cache
                /\ (ops[i].pc = "save" /\ ~ops[i].res.success) =>
                      /\ ops'[i].pc = "ret"
                      /\ ops'[i].res = ops[i].res
                      /\ store' = store
                      /\ cache' = cache ]_vars

\* getOrCreateProfile for u1 has returned READ_ERROR: the unreadable record
\* is still stored and nothing is cached
C32_Witness ==
    /\ store["u1"] = Corrupt
    /\ cache["u1"] = NoEntry
    /\ \E i \in 1..Len(ops) :
           /\ ops[i].kind = "getOrCreateProfile"
           /\ ops[i].pc = "ret"
           /\ failsWith(ops[i].res, "READ_ERROR")

\* C33: save with a profile that fails validation returns VALIDATION_ERROR
\* and the store is as before; findById, update, delete and exists called
\* with an empty uid return INVALID_UID at once and the store is as before;
\* an update that found no record under the uid returns NOT_FOUND and the
\* store is as before (no record appears); an update whose merged profile
\* fails validation returns VALIDATION_ERROR and findById returns what it
\* returned before.
C33_FailedWriteLeavesStore ==
    [][ /\ Len(ops') = Len(ops) + 1 =>
             LET call == ops'[Len(ops')]
             IN  /\ (call.kind = "save" /\ ~validateUserProfile(call.updates)) =>
                       /\ failsWith(call.res, "VALIDATION_ERROR")
                       /\ store' = store
                 /\ (call.kind \in {"findById", "update", "delete", "exists"}
                        /\ call.uid = NoUser) =>
                       /\ call.pc = "ret"
                       /\ failsWith(call.res, "INVALID_UID")
                       /\ store' = store
        /\ \A i \in 1..Len(ops) :
             (/\ Len(ops') = Len(ops)
              /\ ops[i].kind = "update"
              /\ ops[i].pc = "merge"
              /\ ops'[i].pc = "ret"
              /\ ops[i].res.success)
             => /\ ops[i].res.data = NoProfile =>
                      /\ failsWith(ops'[i].res, "NOT_FOUND")
                      /\ store' = store
                /\ (/\ ops[i].res.data # NoProfile
                    /\ ops[i].updates # NullObject
                    /\ ~validateUserProfile(
                           mergeUpdates(ops[i].res.data, ops[i].updates, now))) =>
                      /\ failsWith(ops'[i].res, "VALIDATION_ERROR")
                      /\ store' = store
                      /\ findById(store', ops[i].uid) = findById(store, ops[i].uid) ]_vars

\* update('u1', {displayName: 42}) has returned VALIDATION_ERROR and the
\* record saved before is still what findById returns
C33_Witness ==
    /\ findById(store, "u1") = success(createUserProfileFromAuth(authUserOf("u1"), 0))
    /\ \E i \in 1..Len(ops) :
           /\ ops[i].kind = "update"
           /\ ops[i].pc = "ret"
           /\ ops[i].updates = [displayName |-> NotAString]
           /\ failsWith(ops[i].res, "VALIDATION_ERROR")

\* C34: whenever no profile load of the user portal is in flight, a profile
\* is displayed only while a user is signed in, and it is that user's.
C34_DisplayedProfileIsCurrentUsers ==
    (/\ \A i \in 1..Len(ops) : ops[i].caller # "portal"
     /\ portal.profile # NoProfile)
    => /\ portalUser # NoUser
       /\ currentUser # NoUser
       /\ portal.profile.uid = portalUser

\* C35: when an updatePreferences call that set the theme and one that set
\* the language, both for the same uid, have both returned success, the
\* stored profile has both new values.
C35_NoLostUpdate ==
    \A i, j \in 1..Len(ops) :
        (/\ ops[i].kind = "updatePreferences" /\ ops[j].kind = "updatePreferences"
         /\ ops[i].uid = ops[j].uid
         /\ ops[i].updates = [preferences |-> [theme |-> "light"]]
         /\ ops[j].updates = [preferences |-> [language |-> "en"]]
         /\ ops[i].pc = "ret" /\ ops[j].pc = "ret"
         /\ ops[i].res.success /\ ops[j].res.success)
        => LET stored == findById(store, ops[i].uid).data.preferences
           IN  /\ stored.theme = "light"
               /\ "language" \in DOMAIN stored
               /\ stored.language = "en"

\* C36: whenever no service call is suspended at an await, every cache
\* entry that has not expired holds the profile the repository currently
\* stores for its uid.
C36_CacheCoherent ==
    (\A i \in 1..Len(ops) : ops[i].pc = "ret")
    => \A u \in Users :
           (cache[u] # NoEntry /\ ~isExpired(now - cache[u].timestamp))
           => findById(store, u) = success(cache[u].profile)

\* a call of getOrCreateProfile or getProfile that read the record before an
\* overlapping updatePreferences wrote it has returned the older profile,
\* the update has returned too, and the cache holds the updated profile
C36_Witness ==
    \E i, j \in 1..Len(ops) :
        /\ ops[i].kind = "updatePreferences"
        /\ ops[j].kind \in {"getOrCreateProfile", "getProfile"}
        /\ ops[i].uid = ops[j].uid
        /\ ops[i].pc = "ret" /\ ops[j].pc = "ret"
        /\ ops[i].res.success /\ ops[j].res.success
        /\ ops[j].via = "miss"
        /\ ops[j].res.data # ops[i].res.data
        /\ cache[ops[i].uid] # NoEntry
        /\ cache[ops[i].uid].profile = ops[i].res.data

\* C37: a notification calls every callback that was registered when its
\* delivery started, also when callbacks call their own unsubscribe
\* closures while it is being delivered.
C37_EveryRegisteredCallbackCalled ==
    [][ \A u \in Accounts \cup {NoUser}, leaving \in SUBSET Subscribers :
            ClearProfileLeaving(u, leaving)
            => \A k \in 1..Len(stateCallbacks) :
                   delivered'[stateCallbacks[k]] = NoProfile ]_vars

\* C38: the record stored under the key of uid k has uid k, and the cache
\* entry under k holds a profile whose uid is k.
C38_KeyedByOwnUid ==
    \A k \in Users :
        /\ (store[k] # Absent /\ store[k] # Corrupt) => store[k].uid = k
        /\ cache[k] # NoEntry => cache[k].profile.uid = k

\* updateProfile('u1', { uid: 'u2', ... }) has succeeded: the record under
\* u1 carries the new display name and is cached
C38_Witness ==
    \E i \in 1..Len(ops) :
        /\ ops[i].kind = "updateProfile"
        /\ ops[i].uid = "u1"
        /\ ops[i].updates = [uid |-> "u2", displayName |-> "X"]
        /\ ops[i].pc = "ret"
        /\ ops[i].res.success
        /\ store["u1"].displayName = "X"
        /\ cache["u1"] # NoEntry
        /\ cache["u1"].profile.displayName = "X"

\* C39: once signInWithGoogle has succeeded for the login button, the
\* router eventually has currentRoute '/profile' with the profile view
\* shown by its handler.
C39_LoginReachesProfile ==
    (loginOp = "loginOk") ~> (currentRoute = PROFILE /\ view = "profile")

====
